---- MODULE Spec2Model ----
(***************************************************************************)
(* Model of the multiplayer Tic-Tac-Toe server (server.go): the user       *)
(* registry, the session registry, the room registry with its code index,  *)
(* and the room handlers create / join / state / move / leave / emote.     *)
(* Every room handler runs its read-modify-write under games.mu, so each   *)
(* handler is one atomic action.  The status a handler answers with is a   *)
(* function of the state it finds and of its request: the ...Status        *)
(* operators follow the handler's chain of checks and early returns.       *)
(* handleRegister takes its locks one after the other, so it is modelled    *)
(* as the steps between them, run by concurrent goroutines.                 *)
(***************************************************************************)
EXTENDS Integers, Sequences, FiniteSets, TLC

VARIABLES
    users,      \* db.Users: user id -> [Username, Wins, Losses, Draws]
    sessions,   \* sessions.sessions: token -> user id
    rooms,      \* games.rooms: room id -> GameRoom
    codes,      \* games.codes: join code -> room id
    idSeq,      \* number of ids handed out by generateID so far
    now,        \* time.Now(), in seconds
    tokSeq,     \* number of tokens handed out by generateToken so far
    inflight,   \* handler goroutines: worker -> the request it is serving
    file,       \* users.json: the user registry as saveDatabase last wrote it
    locks       \* db.mu, sessions.mu and games.mu: who holds each of them

vars == <<users, sessions, rooms, codes, idSeq, now, tokSeq, inflight, file, locks>>

----------------------------------------------------------------------------
(* Bounds of the model *)

\* users present in the registry (and logged in) at the start
NumUsers == 3
\* the clock advances while it reads less than MaxTicks emote lifetimes
\* (of EmoteTTL + 1 seconds)
MaxTicks == 1

----------------------------------------------------------------------------
(* Program constants *)

\* handleGameState: an emote older than 3 seconds is cleared
EmoteTTL == 3
\* cleanupOldGames: a room idle for more than time.Hour is removed
Hour == 3600

\* the nil *User: user ids start at 1
Nil == 0

UserIds == 1..NumUsers
\* the usernames of the users the user file holds at the start
usernameOf(u) == "user" \o ToString(u)
\* token 0 stands for an absent or unknown Authorization header
NoToken == 0
Tokens == NoToken..NumUsers
\* the room ids generateID hands out in one behaviour, in this order
RoomIds == {1}

\* the join code generateGameCode returns: with one code, one room is live at a time
GameCodes == {"KQ7M2X"}
\* code strings a join request can carry
CodeInputs == {"KQ7M2X", " kq7m2x ", "HJ9P4Z"}
\* board_size values a create request can carry
SizeInputs == {3, 4}
\* index values a move request can carry (-1 and 9 are out of range on a 3x3
\* board): every cell in SpecPlay; in Spec six cells, which hold row 0-1-2,
\* column 0-3-6 and diagonal 2-4-6
AllIndexInputs == -1..9
IndexInputs == {-1, 0, 1, 2, 3, 4, 6, 9}
\* tokens create requests carry: the users are interchangeable, so the rooms
\* are created by user 1, or asked for without a session
CreatorTokens == {NoToken, 1}
EmoteInputs == {"deal_with_it"}
\* the goroutines net/http serves concurrent requests on
Workers == {"w1", "w2"}
\* clock advances: just past the emote lifetime, just past the idle threshold
TickSteps == {EmoteTTL + 1, Hour + 1}

----------------------------------------------------------------------------
(* Board model *)

\* winLen that asks for three in a row on every board
winLenAlways3(size) == 3

winLen(size) == IF size = 5 THEN 4 ELSE 3

\* number of start positions of a run along one axis
runStarts(size) == size - winLen(size) + 1

rowConditions(size) ==
    [k \in 1..(size * runStarts(size)) |->
        LET row == (k - 1) \div runStarts(size)
            startCol == (k - 1) % runStarts(size)
        IN  [i \in 1..winLen(size) |-> row * size + startCol + (i - 1)]]

colConditions(size) ==
    [k \in 1..(size * runStarts(size)) |->
        LET col == (k - 1) \div runStarts(size)
            startRow == (k - 1) % runStarts(size)
        IN  [i \in 1..winLen(size) |-> (startRow + (i - 1)) * size + col]]

diagConditions(size) ==
    [k \in 1..(runStarts(size) * runStarts(size)) |->
        LET row == (k - 1) \div runStarts(size)
            col == (k - 1) % runStarts(size)
        IN  [i \in 1..winLen(size) |-> (row + (i - 1)) * size + col + (i - 1)]]

antiDiagConditions(size) ==
    [k \in 1..(runStarts(size) * runStarts(size)) |->
        LET row == (k - 1) \div runStarts(size)
            col == (winLen(size) - 1) + ((k - 1) % runStarts(size))
        IN  [i \in 1..winLen(size) |-> (row + (i - 1)) * size + col - (i - 1)]]

\* generateWinningConditions that lists the columns before the rows
generateWinningConditionsColsFirst(size) ==
    colConditions(size) \o rowConditions(size)
        \o diagConditions(size) \o antiDiagConditions(size)

generateWinningConditions(size) ==
    rowConditions(size) \o colConditions(size)
        \o diagConditions(size) \o antiDiagConditions(size)

\* conditionWon that does not compare the marks of the cells
conditionWonFilled(board, condition) ==
    \A i \in 1..Len(condition) : board[condition[i]] # ""

\* the condition holds one identical non-empty mark in all its cells
conditionWon(board, condition) ==
    /\ board[condition[1]] # ""
    /\ \A i \in 1..Len(condition) : board[condition[i]] = board[condition[1]]
\* checkWinner that returns the last won condition instead of the first
checkWinnerLast(board, size) ==
    LET conditions == generateWinningConditions(size)
        won == {k \in 1..Len(conditions) : conditionWon(board, conditions[k])}
    IN  IF won = {} THEN <<"", <<>>>>
        ELSE LET last == CHOOSE k \in won : \A j \in won : k >= j
             IN  <<board[conditions[last][1]], conditions[last]>>

\* checkWinner that returns the winner with the last condition of the list
\* instead of the condition that is won
checkWinnerWrongLine(board, size) ==
    LET conditions == generateWinningConditions(size)
        won == {k \in 1..Len(conditions) : conditionWon(board, conditions[k])}
    IN  IF won = {} THEN <<"", <<>>>>
        ELSE LET first == CHOOSE k \in won : \A j \in won : k <= j
             IN  <<board[conditions[first][1]], conditions[Len(conditions)]>>

\* <<winner, winning line>>; <<"", <<>>>> when no condition is won
checkWinner(board, size) ==
    LET conditions == generateWinningConditions(size)
        won == {k \in 1..Len(conditions) : conditionWon(board, conditions[k])}
    IN  IF won = {} THEN <<"", <<>>>>
        ELSE LET first == CHOOSE k \in won : \A j \in won : k <= j
             IN  <<board[conditions[first][1]], conditions[first]>>

checkDraw(board) == \A i \in DOMAIN board : board[i] # ""

----------------------------------------------------------------------------
(* Registries *)

\* the user a token resolves to, or Nil
getUserFromToken(tok) ==
    IF tok = NoToken \/ tok \notin DOMAIN sessions THEN Nil
    ELSE IF sessions[tok] \in DOMAIN users THEN sessions[tok] ELSE Nil

\* strings.ToUpper(strings.TrimSpace(code)) on the code strings of the model
normalizeCode(s) == IF s = " kq7m2x " THEN "KQ7M2X" ELSE s

isPlayerX(room, user) == room.PlayerX # Nil /\ room.PlayerX = user
isPlayerO(room, user) == room.PlayerO # Nil /\ room.PlayerO = user

addWin(us, u) == IF u = Nil THEN us ELSE [us EXCEPT ![u].Wins = @ + 1]
addLoss(us, u) == IF u = Nil THEN us ELSE [us EXCEPT ![u].Losses = @ + 1]
addDraw(us, u) == IF u = Nil THEN us ELSE [us EXCEPT ![u].Draws = @ + 1]

newRoom(code, size, user) ==
    [Code |-> code,
     BoardSize |-> size,
     Board |-> [i \in 0..(size * size - 1) |-> ""],
     PlayerX |-> user,
     PlayerO |-> Nil,
     CurrentTurn |-> "X",
     Status |-> "waiting",
     Winner |-> "",
     WinningLine |-> <<>>,
     LastMove |-> -1,
     ShowEmote |-> FALSE,
     EmoteType |-> "",
     EmoteBy |-> "",
     EmoteAt |-> 0,       \* the zero time.Time
     UpdatedAt |-> now]

\* a goroutine that serves no request
Idle == [pc |-> "idle", Username |-> "", ID |-> Nil]

\* no goroutine holds a lock: db.mu is held by one writer or by readers
Unlocked ==
    [games |-> "",
     db |-> "", dbReaders |-> {}, dbWaiting |-> {},
     sessions |-> "", sessReaders |-> {}, sessWaiting |-> {}]

----------------------------------------------------------------------------
(* Initial state: the user file is loaded and every user holds one session *)

Init ==
    /\ users = [u \in UserIds |-> [Username |-> usernameOf(u), Wins |-> 0, Losses |-> 0, Draws |-> 0]]
    /\ sessions = [t \in UserIds |-> t]
    /\ rooms = << >>
    /\ codes = << >>
    /\ idSeq = 0
    /\ now = 0
    /\ tokSeq = NumUsers
    /\ inflight = [w \in Workers |-> Idle]
    /\ file = users
    /\ locks = Unlocked

----------------------------------------------------------------------------
(* Room handlers *)

removeKey(f, k) == [x \in DOMAIN f \ {k} |-> f[x]]

\* isInGame that looks at the O seat alone
isInGameOnlyO(room, user) == isPlayerO(room, user)

isInGame(room, user) == isPlayerX(room, user) \/ isPlayerO(room, user)

\* handleCreateGame: the status it answers with
createStatus(tok) ==
    IF getUserFromToken(tok) = Nil THEN "Unauthorized" ELSE "OK"

\* handleCreateGame, while generateID hands out the ids of the set ids; code is
\* the value the generateGameCode retry loop ends with
CreateGameIn(ids, tok, reqSize, code) ==
    LET user == getUserFromToken(tok)
        size == IF reqSize # 3 /\ reqSize # 5 THEN 3 ELSE reqSize
        id == idSeq + 1
    IN  IF createStatus(tok) # "OK"
        THEN UNCHANGED vars
        ELSE /\ id \in ids
             /\ code \notin DOMAIN codes
             /\ rooms' = rooms @@ (id :> newRoom(code, size, user))
             /\ codes' = codes @@ (code :> id)
             /\ idSeq' = id
             /\ UNCHANGED <<users, sessions, tokSeq, inflight, now, file, locks>>

\* handleCreateGame
CreateGame(tok, reqSize, code) == CreateGameIn(RoomIds, tok, reqSize, code)

\* joinStatus without the check that the O seat is free
joinStatusNoFullCheck(tok, codeIn) ==
    LET user == getUserFromToken(tok)
        code == normalizeCode(codeIn)
    IN  IF user = Nil THEN "Unauthorized"
        ELSE IF code \notin DOMAIN codes THEN "NotFound"
        ELSE IF codes[code] \notin DOMAIN rooms THEN "NotFound"
        ELSE "OK"

\* handleJoinGame: the status it answers with
joinStatus(tok, codeIn) ==
    LET user == getUserFromToken(tok)
        code == normalizeCode(codeIn)
    IN  IF user = Nil THEN "Unauthorized"
        ELSE IF code \notin DOMAIN codes THEN "NotFound"
        ELSE IF codes[code] \notin DOMAIN rooms THEN "NotFound"
        ELSE IF isPlayerX(rooms[codes[code]], user) THEN "OK"
        ELSE IF isPlayerO(rooms[codes[code]], user) THEN "OK"
        ELSE IF rooms[codes[code]].PlayerO # Nil THEN "Conflict"
        ELSE "OK"

\* joinAsO that seats the caller and leaves the status at waiting
joinAsOKeepStatus(room, user) ==
    [room EXCEPT !.PlayerO = user, !.UpdatedAt = now]

\* handleJoinGame: the caller takes the O seat
joinAsO(room, user) ==
    [room EXCEPT !.PlayerO = user, !.Status = "playing", !.UpdatedAt = now]

\* joinedRooms that refreshes updated_at when the caller is already seated
joinedRoomsTouch(tok, codeIn) ==
    LET user == getUserFromToken(tok)
        code == normalizeCode(codeIn)
    IN  IF joinStatus(tok, codeIn) # "OK" THEN rooms
        ELSE IF isInGame(rooms[codes[code]], user)
        THEN [rooms EXCEPT ![codes[code]].UpdatedAt = now]
        ELSE [rooms EXCEPT ![codes[code]] = joinAsO(@, user)]

\* handleJoinGame: the room registry the handler leaves
joinedRooms(tok, codeIn) ==
    LET user == getUserFromToken(tok)
        code == normalizeCode(codeIn)
    IN  IF joinStatus(tok, codeIn) # "OK" THEN rooms
        ELSE IF isInGame(rooms[codes[code]], user) THEN rooms
        ELSE [rooms EXCEPT ![codes[code]] = joinAsO(@, user)]

\* handleJoinGame
JoinGame(tok, codeIn) ==
    /\ rooms' = joinedRooms(tok, codeIn)
    /\ UNCHANGED <<users, sessions, tokSeq, inflight, codes, idSeq, now, file, locks>>

\* handleGameState: the status it answers with
stateStatus(id) == IF id \notin DOMAIN rooms THEN "NotFound" ELSE "OK"

\* clearEmote that clears an emote that is exactly EmoteTTL old as well
clearEmoteAtTTL(room) ==
    IF room.ShowEmote /\ now - room.EmoteAt >= EmoteTTL
    THEN [room EXCEPT !.ShowEmote = FALSE, !.EmoteType = "", !.EmoteBy = ""]
    ELSE room

\* handleGameState: the emote is cleared once it is older than EmoteTTL
clearEmote(room) ==
    IF room.ShowEmote /\ now - room.EmoteAt > EmoteTTL
    THEN [room EXCEPT !.ShowEmote = FALSE, !.EmoteType = "", !.EmoteBy = ""]
    ELSE room

\* handleGameState: the rooms the handler leaves
readRooms(id) ==
    IF stateStatus(id) # "OK" THEN rooms ELSE [rooms EXCEPT ![id] = clearEmote(@)]

\* handleGameState
GameState(id) ==
    /\ rooms' = readRooms(id)
    /\ UNCHANGED <<users, sessions, tokSeq, inflight, codes, idSeq, now, file, locks>>

\* the mark the caller plays in the room, or "" when the caller is not seated
playerSymbolOf(room, user) ==
    IF isPlayerX(room, user) THEN "X"
    ELSE IF isPlayerO(room, user) THEN "O"
    ELSE ""
\* moveStatus without the check that the game is in progress
moveStatusNoStatusCheck(tok, id, index) ==
    LET user == getUserFromToken(tok)
    IN  IF user = Nil THEN "Unauthorized"
        ELSE IF id \notin DOMAIN rooms THEN "NotFound"
        ELSE IF playerSymbolOf(rooms[id], user) = "" THEN "Forbidden"
        ELSE IF rooms[id].CurrentTurn # playerSymbolOf(rooms[id], user) THEN "BadRequest"
        ELSE IF index < 0 \/ index >= rooms[id].BoardSize * rooms[id].BoardSize
        THEN "BadRequest"
        ELSE IF rooms[id].Board[index] # "" THEN "BadRequest"
        ELSE "OK"

\* moveStatus without the check that the cell is empty
moveStatusNoCellCheck(tok, id, index) ==
    LET user == getUserFromToken(tok)
    IN  IF user = Nil THEN "Unauthorized"
        ELSE IF id \notin DOMAIN rooms THEN "NotFound"
        ELSE IF rooms[id].Status # "playing" THEN "BadRequest"
        ELSE IF playerSymbolOf(rooms[id], user) = "" THEN "Forbidden"
        ELSE IF rooms[id].CurrentTurn # playerSymbolOf(rooms[id], user) THEN "BadRequest"
        ELSE IF index < 0 \/ index >= rooms[id].BoardSize * rooms[id].BoardSize
        THEN "BadRequest"
        ELSE "OK"

\* moveStatus without the check that the caller is seated
moveStatusNoSeatCheck(tok, id, index) ==
    LET user == getUserFromToken(tok)
    IN  IF user = Nil THEN "Unauthorized"
        ELSE IF id \notin DOMAIN rooms THEN "NotFound"
        ELSE IF rooms[id].Status # "playing" THEN "BadRequest"
        ELSE IF rooms[id].CurrentTurn # playerSymbolOf(rooms[id], user) THEN "BadRequest"
        ELSE IF index < 0 \/ index >= rooms[id].BoardSize * rooms[id].BoardSize
        THEN "BadRequest"
        ELSE IF rooms[id].Board[index] # "" THEN "BadRequest"
        ELSE "OK"

\* moveStatus without the check that it is the caller's turn
moveStatusNoTurnCheck(tok, id, index) ==
    LET user == getUserFromToken(tok)
    IN  IF user = Nil THEN "Unauthorized"
        ELSE IF id \notin DOMAIN rooms THEN "NotFound"
        ELSE IF rooms[id].Status # "playing" THEN "BadRequest"
        ELSE IF playerSymbolOf(rooms[id], user) = "" THEN "Forbidden"
        ELSE IF index < 0 \/ index >= rooms[id].BoardSize * rooms[id].BoardSize
        THEN "BadRequest"
        ELSE IF rooms[id].Board[index] # "" THEN "BadRequest"
        ELSE "OK"

\* handleGameMove: the status it answers with
moveStatus(tok, id, index) ==
    LET user == getUserFromToken(tok)
    IN  IF user = Nil THEN "Unauthorized"
        ELSE IF id \notin DOMAIN rooms THEN "NotFound"
        ELSE IF rooms[id].Status # "playing" THEN "BadRequest"
        ELSE IF playerSymbolOf(rooms[id], user) = "" THEN "Forbidden"
        ELSE IF rooms[id].CurrentTurn # playerSymbolOf(rooms[id], user) THEN "BadRequest"
        ELSE IF index < 0 \/ index >= rooms[id].BoardSize * rooms[id].BoardSize
        THEN "BadRequest"
        ELSE IF rooms[id].Board[index] # "" THEN "BadRequest"
        ELSE "OK"
\* applyMove that looks for a full board before it looks for a winner
applyMoveDrawFirst(room, playerSymbol, index) ==
    LET board == [room.Board EXCEPT ![index] = playerSymbol]
        moved == [room EXCEPT !.Board = board, !.LastMove = index, !.UpdatedAt = now]
        result == checkWinner(board, room.BoardSize)
    IN  IF checkDraw(board)
        THEN [moved EXCEPT !.Winner = "draw", !.Status = "finished"]
        ELSE IF result[1] # ""
        THEN [moved EXCEPT !.Winner = result[1], !.WinningLine = result[2],
                           !.Status = "finished"]
        ELSE [moved EXCEPT !.CurrentTurn = IF @ = "X" THEN "O" ELSE "X"]

\* applyMove that leaves the turn marker where it is
applyMoveNoFlip(room, playerSymbol, index) ==
    LET board == [room.Board EXCEPT ![index] = playerSymbol]
        moved == [room EXCEPT !.Board = board, !.LastMove = index, !.UpdatedAt = now]
        result == checkWinner(board, room.BoardSize)
    IN  IF result[1] # ""
        THEN [moved EXCEPT !.Winner = result[1], !.WinningLine = result[2],
                           !.Status = "finished"]
        ELSE IF checkDraw(board)
        THEN [moved EXCEPT !.Winner = "draw", !.Status = "finished"]
        ELSE moved

\* applyMove that does not look for a full board
applyMoveNoDraw(room, playerSymbol, index) ==
    LET board == [room.Board EXCEPT ![index] = playerSymbol]
        moved == [room EXCEPT !.Board = board, !.LastMove = index, !.UpdatedAt = now]
        result == checkWinner(board, room.BoardSize)
    IN  IF result[1] # ""
        THEN [moved EXCEPT !.Winner = result[1], !.WinningLine = result[2],
                           !.Status = "finished"]
        ELSE [moved EXCEPT !.CurrentTurn = IF @ = "X" THEN "O" ELSE "X"]

\* handleGameMove: the room after an accepted move
applyMove(room, playerSymbol, index) ==
    LET board == [room.Board EXCEPT ![index] = playerSymbol]
        moved == [room EXCEPT !.Board = board, !.LastMove = index, !.UpdatedAt = now]
        result == checkWinner(board, room.BoardSize)
    IN  IF result[1] # ""
        THEN [moved EXCEPT !.Winner = result[1], !.WinningLine = result[2],
                           !.Status = "finished"]
        ELSE IF checkDraw(board)
        THEN [moved EXCEPT !.Winner = "draw", !.Status = "finished"]
        ELSE [moved EXCEPT !.CurrentTurn = IF @ = "X" THEN "O" ELSE "X"]
\* moveScores that forgets the loss of the player who did not win
moveScoresNoLoss(us, room, board) ==
    LET winner == checkWinner(board, room.BoardSize)[1]
    IN  IF winner # ""
        THEN IF winner = "X" /\ room.PlayerX # Nil
             THEN addWin(us, room.PlayerX)
             ELSE IF winner = "O" /\ room.PlayerO # Nil
             THEN addWin(us, room.PlayerO)
             ELSE us
        ELSE IF checkDraw(board)
        THEN addDraw(addDraw(us, room.PlayerX), room.PlayerO)
        ELSE us

\* handleGameMove: the score updates of a move that leaves this board
moveScores(us, room, board) ==
    LET winner == checkWinner(board, room.BoardSize)[1]
    IN  IF winner # ""
        THEN IF winner = "X" /\ room.PlayerX # Nil
             THEN addLoss(addWin(us, room.PlayerX), room.PlayerO)
             ELSE IF winner = "O" /\ room.PlayerO # Nil
             THEN addLoss(addWin(us, room.PlayerO), room.PlayerX)
             ELSE us
        ELSE IF checkDraw(board)
        THEN addDraw(addDraw(us, room.PlayerX), room.PlayerO)
        ELSE us

\* handleGameMove: the room registry the handler leaves
movedRooms(tok, id, index) ==
    IF moveStatus(tok, id, index) # "OK" THEN rooms
    ELSE [rooms EXCEPT ![id] =
            applyMove(@, playerSymbolOf(@, getUserFromToken(tok)), index)]

\* handleGameMove: the user registry the handler leaves
movedUsers(tok, id, index) ==
    IF moveStatus(tok, id, index) # "OK" THEN users
    ELSE moveScores(users, rooms[id], movedRooms(tok, id, index)[id].Board)

\* saveDatabase: the user file after the registry us is written to it, or
\* after os.WriteFile failed
saveDatabase(us, written) == IF written THEN us ELSE file

\* handleGameMove: the user file the handler leaves; saveDatabase is called when
\* the move ends the game
movedFile(tok, id, index, written) ==
    IF moveStatus(tok, id, index) # "OK" THEN file
    ELSE IF movedRooms(tok, id, index)[id].Status = "finished"
    THEN saveDatabase(movedUsers(tok, id, index), written)
    ELSE file

\* handleGameMove, with the outcome of the write of the user file
\* GameMoveSave that takes the scores back when the write fails
GameMoveSaveOrRollback(tok, id, index, written) ==
    /\ rooms' = movedRooms(tok, id, index)
    /\ users' = IF written THEN movedUsers(tok, id, index) ELSE users
    /\ file' = movedFile(tok, id, index, written)
    /\ UNCHANGED <<sessions, tokSeq, inflight, codes, idSeq, now, locks>>

GameMoveSave(tok, id, index, written) ==
    /\ rooms' = movedRooms(tok, id, index)
    /\ users' = movedUsers(tok, id, index)
    /\ file' = movedFile(tok, id, index, written)
    /\ UNCHANGED <<sessions, tokSeq, inflight, codes, idSeq, now, locks>>

\* handleGameMove (the user file is written)
GameMove(tok, id, index) == GameMoveSave(tok, id, index, TRUE)

\* handleLeaveGame: the status it answers with
leaveStatus(tok, id) ==
    IF getUserFromToken(tok) = Nil THEN "Unauthorized" ELSE "OK"
\* forfeit that names the leaving player the winner
forfeitLeaverWins(room, user) ==
    IF isPlayerX(room, user)
    THEN [room EXCEPT !.Winner = "X", !.Status = "finished"]
    ELSE IF isPlayerO(room, user)
    THEN [room EXCEPT !.Winner = "O", !.Status = "finished"]
    ELSE room

\* handleLeaveGame: the room after a leave while the game is in progress
forfeit(room, user) ==
    IF isPlayerX(room, user)
    THEN [room EXCEPT !.Winner = "O", !.Status = "finished"]
    ELSE IF isPlayerO(room, user)
    THEN [room EXCEPT !.Winner = "X", !.Status = "finished"]
    ELSE room

\* handleLeaveGame: the score updates of a leave while the game is in progress
forfeitScores(us, room, user) ==
    IF isPlayerX(room, user)
    THEN addLoss(addWin(us, room.PlayerO), room.PlayerX)
    ELSE IF isPlayerO(room, user)
    THEN addLoss(addWin(us, room.PlayerX), room.PlayerO)
    ELSE us

\* handleLeaveGame: the room registry the handler leaves
leftRooms(tok, id) ==
    IF leaveStatus(tok, id) # "OK" \/ id \notin DOMAIN rooms THEN rooms
    ELSE IF rooms[id].Status = "waiting" \/ rooms[id].Status = "finished"
    THEN removeKey(rooms, id)
    ELSE [rooms EXCEPT ![id] = forfeit(@, getUserFromToken(tok))]

\* leftCodes that keeps the code of a deleted room in the index
leftCodesKeep(tok, id) == codes

\* handleLeaveGame: the code index the handler leaves
leftCodes(tok, id) ==
    IF leaveStatus(tok, id) # "OK" \/ id \notin DOMAIN rooms THEN codes
    ELSE IF rooms[id].Status = "waiting" \/ rooms[id].Status = "finished"
    THEN removeKey(codes, rooms[id].Code)
    ELSE codes

\* handleLeaveGame: the user registry the handler leaves
leftUsers(tok, id) ==
    IF leaveStatus(tok, id) # "OK" \/ id \notin DOMAIN rooms THEN users
    ELSE IF rooms[id].Status = "waiting" \/ rooms[id].Status = "finished"
    THEN users
    ELSE forfeitScores(users, rooms[id], getUserFromToken(tok))

\* handleLeaveGame: the user file the handler leaves; saveDatabase is called
\* when a seated player forfeits
leftFile(tok, id, written) ==
    IF leaveStatus(tok, id) # "OK" \/ id \notin DOMAIN rooms THEN file
    ELSE IF rooms[id].Status = "waiting" \/ rooms[id].Status = "finished" THEN file
    ELSE IF isInGame(rooms[id], getUserFromToken(tok))
    THEN saveDatabase(leftUsers(tok, id), written)
    ELSE file

\* handleLeaveGame, with the outcome of the write of the user file
LeaveGameSave(tok, id, written) ==
    /\ rooms' = leftRooms(tok, id)
    /\ codes' = leftCodes(tok, id)
    /\ users' = leftUsers(tok, id)
    /\ file' = leftFile(tok, id, written)
    /\ UNCHANGED <<sessions, tokSeq, inflight, idSeq, now, locks>>

\* handleLeaveGame (the user file is written)
LeaveGame(tok, id) == LeaveGameSave(tok, id, TRUE)

\* emoteStatus without the check that the caller is seated
emoteStatusNoSeatCheck(tok, id) ==
    LET user == getUserFromToken(tok)
    IN  IF user = Nil THEN "Unauthorized"
        ELSE IF id \notin DOMAIN rooms THEN "NotFound"
        ELSE "OK"

\* handleGameEmote: the status it answers with
emoteStatus(tok, id) ==
    LET user == getUserFromToken(tok)
    IN  IF user = Nil THEN "Unauthorized"
        ELSE IF id \notin DOMAIN rooms THEN "NotFound"
        ELSE IF ~isInGame(rooms[id], user) THEN "Forbidden"
        ELSE "OK"

\* handleGameEmote: the room after the emote is set
setEmote(room, user, emoteType) ==
    [room EXCEPT !.ShowEmote = TRUE,
                 !.EmoteType = emoteType,
                 !.EmoteBy = users[user].Username,
                 !.EmoteAt = now,
                 !.UpdatedAt = now]

\* handleGameEmote: the rooms the handler leaves
emotedRooms(tok, id, emoteType) ==
    IF emoteStatus(tok, id) # "OK" THEN rooms
    ELSE [rooms EXCEPT ![id] = setEmote(@, getUserFromToken(tok), emoteType)]

\* handleGameEmote
GameEmote(tok, id, emoteType) ==
    /\ rooms' = emotedRooms(tok, id, emoteType)
    /\ UNCHANGED <<users, sessions, tokSeq, inflight, codes, idSeq, now, file, locks>>

\* isExpired that counts a room idle for exactly an hour as expired
isExpiredAtHour(room) == now - room.UpdatedAt >= Hour

\* cleanupOldGames: the room is idle for more than an hour at the sweep
isExpired(room) == now - room.UpdatedAt > Hour

\* Cleanup that removes the expired rooms and leaves their codes in the index
CleanupKeepsCodes ==
    /\ rooms' = [id \in {i \in DOMAIN rooms : ~isExpired(rooms[i])} |-> rooms[id]]
    /\ UNCHANGED <<users, sessions, tokSeq, inflight, codes, idSeq, now, file, locks>>

\* cleanupOldGames: the rooms a sweep leaves
sweptRooms == [id \in {i \in DOMAIN rooms : ~isExpired(rooms[i])} |-> rooms[id]]

\* cleanupOldGames: the code index a sweep leaves
sweptCodes ==
    [c \in DOMAIN codes
            \ {rooms[i].Code : i \in {j \in DOMAIN rooms : isExpired(rooms[j])}}
        |-> codes[c]]

\* cleanupOldGames: one sweep
Cleanup ==
    /\ rooms' = sweptRooms
    /\ codes' = sweptCodes
    /\ UNCHANGED <<users, sessions, tokSeq, inflight, idSeq, now, file, locks>>

\* the clock advances between two requests
Tick(d) ==
    /\ now < MaxTicks * (EmoteTTL + 1)
    /\ now' = now + d
    /\ UNCHANGED <<users, sessions, tokSeq, inflight, rooms, codes, idSeq, file, locks>>

----------------------------------------------------------------------------
(* Spec: every room operation, the sweep and the clock; move requests      *)
(* address the cells of IndexInputs.                                       *)

Next ==
    \/ \E tok \in CreatorTokens, reqSize \in SizeInputs, code \in GameCodes :
            CreateGame(tok, reqSize, code)
    \/ \E tok \in Tokens, codeIn \in CodeInputs : JoinGame(tok, codeIn)
    \/ \E id \in RoomIds : GameState(id)
    \/ \E tok \in Tokens, id \in RoomIds, index \in IndexInputs : GameMove(tok, id, index)
    \/ \E tok \in Tokens, id \in RoomIds : LeaveGame(tok, id)
    \/ \E tok \in Tokens, id \in RoomIds, e \in EmoteInputs : GameEmote(tok, id, e)
    \/ Cleanup
    \/ \E d \in TickSteps : Tick(d)

Spec == Init /\ [][Next]_vars

----------------------------------------------------------------------------
(* SpecEmote: emotes and reads of a game while the clock advances in steps  *)
(* of a second and of the emote lifetime, so that an emote is read at every *)
(* age around EmoteTTL.                                                     *)

EmoteTickSteps == {1, EmoteTTL}

EmoteIndexInputs == {0, 4}

NextEmote ==
    \/ \E tok \in CreatorTokens, code \in GameCodes : CreateGame(tok, Nil, code)
    \/ \E tok \in Tokens, codeIn \in GameCodes : JoinGame(tok, codeIn)
    \/ \E id \in RoomIds : GameState(id)
    \/ \E tok \in Tokens, id \in RoomIds, index \in EmoteIndexInputs :
            GameMove(tok, id, index)
    \/ \E tok \in Tokens, id \in RoomIds, e \in EmoteInputs : GameEmote(tok, id, e)
    \/ \E d \in EmoteTickSteps : Tick(d)

SpecEmote == Init /\ [][NextEmote]_vars

----------------------------------------------------------------------------
(* SpecPlay: whole games on the full board (create, join, move, leave)     *)

NextPlay ==
    \/ \E tok \in CreatorTokens, reqSize \in SizeInputs, code \in GameCodes :
            CreateGame(tok, reqSize, code)
    \/ \E tok \in Tokens, codeIn \in CodeInputs : JoinGame(tok, codeIn)
    \/ \E tok \in Tokens, id \in RoomIds, index \in AllIndexInputs : GameMove(tok, id, index)
    \/ \E tok \in Tokens, id \in RoomIds : LeaveGame(tok, id)

SpecPlay == Init /\ [][NextPlay]_vars

----------------------------------------------------------------------------
(* SpecLobby: several rooms over two join codes (create, join, leave, the  *)
(* sweep and the clock around the idle threshold)                           *)

\* the room ids generateID hands out in one behaviour of SpecLobby
LobbyRoomIds == {1, 2, 3}
\* the codes generateGameCode returns in SpecLobby
LobbyCodes == {"KQ7M2X", "HJ9P4Z"}
\* tokens create requests carry in SpecLobby: users 1 and 2 create the rooms,
\* so a user can hold the X seat of one room and the O seat of another
LobbyCreatorTokens == {NoToken, 1, 2}
\* clock advances: exactly the idle threshold, just past it
SweepTickSteps == {Hour, Hour + 1}

NextLobby ==
    \/ \E tok \in LobbyCreatorTokens, reqSize \in SizeInputs, code \in LobbyCodes :
            CreateGameIn(LobbyRoomIds, tok, reqSize, code)
    \/ \E tok \in Tokens, codeIn \in CodeInputs : JoinGame(tok, codeIn)
    \/ \E tok \in Tokens, id \in LobbyRoomIds : LeaveGame(tok, id)
    \/ Cleanup
    \/ \E d \in SweepTickSteps : Tick(d)

SpecLobby == Init /\ [][NextLobby]_vars

----------------------------------------------------------------------------
(* SpecSweep: rooms leave the registry by the sweep alone (create, join,   *)
(* the sweep and the clock around the idle threshold)                       *)

NextSweep ==
    \/ \E tok \in Tokens, reqSize \in SizeInputs, code \in LobbyCodes :
            CreateGameIn(LobbyRoomIds, tok, reqSize, code)
    \/ \E tok \in Tokens, codeIn \in CodeInputs : JoinGame(tok, codeIn)
    \/ Cleanup
    \/ \E d \in SweepTickSteps : Tick(d)

SpecSweep == Init /\ [][NextSweep]_vars

----------------------------------------------------------------------------
(* SpecAuth: handleRegister on concurrent goroutines, from an empty user   *)
(* file.  The handler takes db.mu three times and sessions.mu once; its     *)
(* steps are the sections between them: the username check (read lock), the *)
(* insert (write lock) and the session (sessions lock).                     *)

\* username values a register request can carry: two that differ in case,
\* one of 1 character and one of 21 characters
UsernameInputs == {"al", "AL", "a", "abcdefghijklmnopqrstu"}

\* the users the scan of db.Users can return (the map is ranged over in random
\* order); the empty set stands for nil
findUserByUsername(username) ==
    {u \in DOMAIN users : users[u].Username = username}

\* registerStatus without the lookup of the username
registerStatusNoLookup(username) ==
    IF username = "" \/ Len(username) < 2 \/ Len(username) > 20
    THEN "BadRequest"
    ELSE "OK"

\* handleRegister: the status its checks answer with
registerStatus(username) ==
    IF username = "" \/ Len(username) < 2 \/ Len(username) > 20
    THEN "BadRequest"
    ELSE IF findUserByUsername(username) # {} THEN "Conflict"
    ELSE "OK"

InitAuth ==
    /\ users = << >>
    /\ sessions = << >>
    /\ rooms = << >>
    /\ codes = << >>
    /\ idSeq = 0
    /\ now = 0
    /\ tokSeq = 0
    /\ inflight = [w \in Workers |-> Idle]
    /\ file = users
    /\ locks = Unlocked

\* handleRegister: the goroutines after the request is validated, the username
\* looked up and the User value built
registerChecked(w, username) ==
    IF registerStatus(username) # "OK" THEN inflight
    ELSE [inflight EXCEPT ![w] = [pc |-> "insert", Username |-> username,
                                  ID |-> idSeq + 1]]

\* handleRegister, up to the User value: a request that fails a check is
\* answered and leaves nothing behind
RegisterCheck(w, username) ==
    /\ inflight[w].pc = "idle"
    /\ idSeq < NumUsers
    /\ inflight' = registerChecked(w, username)
    /\ idSeq' = IF registerStatus(username) # "OK" THEN idSeq ELSE idSeq + 1
    /\ UNCHANGED <<users, sessions, rooms, codes, now, tokSeq, file, locks>>

\* handleRegister: db.Users[user.ID] = user under db.mu
RegisterInsert(w) ==
    /\ inflight[w].pc = "insert"
    /\ users' = users @@ (inflight[w].ID :>
                    [Username |-> inflight[w].Username,
                     Wins |-> 0, Losses |-> 0, Draws |-> 0])
    /\ inflight' = [inflight EXCEPT ![w].pc = "save"]
    /\ UNCHANGED <<sessions, rooms, codes, idSeq, now, tokSeq, file, locks>>

\* handleRegister: saveDatabase writes the registry as it is now; a failed
\* write is logged and the handler goes on
RegisterSave(w, written) ==
    /\ inflight[w].pc = "save"
    /\ file' = saveDatabase(users, written)
    /\ inflight' = [inflight EXCEPT ![w].pc = "session"]
    /\ UNCHANGED <<users, sessions, rooms, codes, idSeq, now, tokSeq, locks>>

\* handleRegister: sessions.sessions[token] = user.ID under sessions.mu, and
\* the response
RegisterSession(w) ==
    /\ inflight[w].pc = "session"
    /\ sessions' = sessions @@ ((tokSeq + 1) :> inflight[w].ID)
    /\ tokSeq' = tokSeq + 1
    /\ inflight' = [inflight EXCEPT ![w] = Idle]
    /\ UNCHANGED <<users, rooms, codes, idSeq, now, file, locks>>

\* handleLogin: the status it answers with
loginStatus(username) ==
    IF findUserByUsername(username) = {} THEN "NotFound" ELSE "OK"

\* tokens generateToken hands to a login in SpecAuth
LoginTokens == {1, 2, 3}

\* handleLogin: a new token for a user with this username
Login(username) ==
    /\ tokSeq + 1 \in LoginTokens
    /\ IF loginStatus(username) # "OK"
       THEN UNCHANGED vars
       ELSE /\ \E u \in findUserByUsername(username) :
                  sessions' = sessions @@ ((tokSeq + 1) :> u)
            /\ tokSeq' = tokSeq + 1
            /\ UNCHANGED <<users, rooms, codes, idSeq, now, inflight, file, locks>>

\* Logout that ends every session of the token's user
LogoutAll(tok) ==
    /\ sessions' = IF tok \in DOMAIN sessions
                   THEN [t \in {x \in DOMAIN sessions : sessions[x] # sessions[tok]}
                            |-> sessions[t]]
                   ELSE sessions
    /\ UNCHANGED <<users, rooms, codes, idSeq, now, tokSeq, inflight, file, locks>>

\* handleLogout: the token is deleted from the sessions, if the header has one
Logout(tok) ==
    /\ sessions' = IF tok = NoToken THEN sessions ELSE removeKey(sessions, tok)
    /\ UNCHANGED <<users, rooms, codes, idSeq, now, tokSeq, inflight, file, locks>>

\* handleGetUser: the status it answers with
userStatus(tok) == IF getUserFromToken(tok) = Nil THEN "Unauthorized" ELSE "OK"

\* result values an update score request can carry
ResultInputs == {"win", "loss", "draw", "tie"}

\* handleUpdateScore: the status it answers with
scoreStatus(tok, result) ==
    IF getUserFromToken(tok) = Nil THEN "Unauthorized"
    ELSE IF result \notin {"win", "loss", "draw"} THEN "BadRequest"
    ELSE "OK"

\* handleUpdateScore: the user registry the handler leaves
scoredUsers(tok, result) ==
    LET user == getUserFromToken(tok)
    IN  IF scoreStatus(tok, result) # "OK" THEN users
        ELSE IF result = "win" THEN addWin(users, user)
        ELSE IF result = "loss" THEN addLoss(users, user)
        ELSE addDraw(users, user)

\* tokens a request can carry in SpecAuth: every token generateToken hands out
\* there, and NoToken
SessionTokens == NoToken..(NumUsers + Cardinality(LoginTokens))

\* ids generateID can hand to a room in SpecAuth, where it serves the users too
AuthRoomIds == 1..(NumUsers + 1)

NextAuth ==
    \/ \E w \in Workers, username \in UsernameInputs : RegisterCheck(w, username)
    \/ \E w \in Workers : RegisterInsert(w)
    \/ \E w \in Workers : RegisterSave(w, TRUE)
    \/ \E w \in Workers : RegisterSession(w)
    \/ \E username \in UsernameInputs : Login(username)
    \/ \E tok \in SessionTokens : Logout(tok)
    \/ \E tok \in SessionTokens, code \in GameCodes :
            CreateGameIn(AuthRoomIds, tok, Nil, code)

SpecAuth == InitAuth /\ [][NextAuth]_vars

----------------------------------------------------------------------------
(* SpecBoard: checkWinner applied to the boards of one room.  The inputs    *)
(* are every 3x3 board, and the 5x5 boards painted with two strokes: a      *)
(* stroke marks three, four or five cells in a row, the later stroke over   *)
(* the earlier one.                                                         *)

Marks == {"X", "O"}
BoardSizes == {3, 5}
StrokeLens == {3, 4, 5}
\* the directions of a line: right, down, down-right, down-left
Directions == {<<0, 1>>, <<1, 0>>, <<1, 1>>, <<1, -1>>}

\* the cells of the line of len cells from (row, col) in direction dir
segment(size, row, col, dir, len) ==
    [i \in 1..len |-> (row + (i - 1) * dir[1]) * size + col + (i - 1) * dir[2]]

\* the lines of len cells that lie on the board
segments(size, len) ==
    {segment(size, x[1], x[2], x[3], len) :
        x \in {y \in (0..(size - 1)) \X (0..(size - 1)) \X Directions :
                  /\ y[1] + (len - 1) * y[3][1] \in 0..(size - 1)
                  /\ y[2] + (len - 1) * y[3][2] \in 0..(size - 1)}}

emptyBoard(size) == [i \in 0..(size * size - 1) |-> ""]

paint(board, line, mark) ==
    [i \in DOMAIN board |->
        IF \E k \in 1..Len(line) : line[k] = i THEN mark ELSE board[i]]

Strokes(size) == (UNION {segments(size, len) : len \in StrokeLens}) \X Marks

StrokeBoards(size) ==
    {emptyBoard(size)} \cup
    {paint(paint(emptyBoard(size), s1[1], s1[2]), s2[1], s2[2]) :
        s1 \in Strokes(size), s2 \in Strokes(size)}

BoardInputs(size) ==
    IF size = 3 THEN [0..8 -> {"", "X", "O"}] ELSE StrokeBoards(size)

\* a room in progress between users 1 and 2 that holds the board
roomWithBoard(size, board) ==
    [newRoom("KQ7M2X", size, 1) EXCEPT !.Board = board, !.PlayerO = 2,
                                       !.Status = "playing"]

InitBoard ==
    /\ users = [u \in UserIds |-> [Username |-> usernameOf(u), Wins |-> 0, Losses |-> 0, Draws |-> 0]]
    /\ sessions = [t \in UserIds |-> t]
    /\ now = 0
    /\ \E size \in BoardSizes :
          \E board \in BoardInputs(size) : rooms = (1 :> roomWithBoard(size, board))
    /\ codes = ("KQ7M2X" :> 1)
    /\ idSeq = 1
    /\ tokSeq = NumUsers
    /\ inflight = [w \in Workers |-> Idle]
    /\ file = users
    /\ locks = Unlocked

\* handleGameMove: the result of checkWinner on the room's board is recorded
EvaluateWinner(id) ==
    LET result == checkWinner(rooms[id].Board, rooms[id].BoardSize)
    IN  /\ rooms[id].Status = "playing"
        /\ rooms' = IF result[1] # ""
                    THEN [rooms EXCEPT ![id].Winner = result[1],
                                       ![id].WinningLine = result[2],
                                       ![id].Status = "finished"]
                    ELSE rooms
        /\ UNCHANGED <<users, sessions, tokSeq, inflight, codes, idSeq, now, file, locks>>

NextBoard == \E id \in DOMAIN rooms : EvaluateWinner(id)

SpecBoard == InitBoard /\ [][NextBoard]_vars

----------------------------------------------------------------------------
(* SpecStore: the operations that call saveDatabase, with a write of the    *)
(* file that succeeds or fails. A game between users 1 and 2 is in its last *)
(* moves; the other user registers while it is played.                      *)

SaveOutcomes == {TRUE, FALSE}

\* X:0, O:3, X:1, O:4: X wins with cell 2, O with cell 5
NearWinBoard ==
    (0 :> "X") @@ (1 :> "X") @@ (2 :> "") @@ (3 :> "O") @@ (4 :> "O")
        @@ (5 :> "") @@ (6 :> "") @@ (7 :> "") @@ (8 :> "")

\* X:0, O:1, X:2, O:4, X:3, O:5, X:7, O:6: the last cell completes no line
NearDrawBoard ==
    (0 :> "X") @@ (1 :> "O") @@ (2 :> "X") @@ (3 :> "X") @@ (4 :> "O")
        @@ (5 :> "O") @@ (6 :> "O") @@ (7 :> "X") @@ (8 :> "")

\* the games in progress SpecStore starts from
StoreRooms ==
    {[roomWithBoard(3, NearWinBoard) EXCEPT !.LastMove = 4],
     [roomWithBoard(3, NearDrawBoard) EXCEPT !.LastMove = 6]}

\* the users that are registered when SpecStore starts
StoreUserIds == 1..(NumUsers - 1)

InitStore ==
    /\ users = [u \in StoreUserIds |->
                    [Username |-> usernameOf(u), Wins |-> 0, Losses |-> 0, Draws |-> 0]]
    /\ sessions = [t \in StoreUserIds |-> t]
    /\ now = 0
    /\ \E room \in StoreRooms : rooms = (1 :> room)
    /\ codes = ("KQ7M2X" :> 1)
    /\ idSeq = NumUsers - 1
    /\ tokSeq = NumUsers - 1
    /\ inflight = [w \in Workers |-> Idle]
    /\ file = users
    /\ locks = Unlocked

\* the score totals of a user at which SpecStore still takes an update score
\* request of that user
ScoreTotals == {0}

scoreTotal(user) == users[user].Wins + users[user].Losses + users[user].Draws

\* handleUpdateScore: the file after the handler
scoredFile(tok, result, written) ==
    IF scoreStatus(tok, result) # "OK" THEN file
    ELSE saveDatabase(scoredUsers(tok, result), written)

\* handleUpdateScore, with the outcome of the write of the file
UpdateScoreSave(tok, result, written) ==
    /\ users' = scoredUsers(tok, result)
    /\ file' = scoredFile(tok, result, written)
    /\ UNCHANGED <<sessions, rooms, codes, idSeq, now, tokSeq, inflight, locks>>

StoreUsernames == {"al"}

StoreIndexInputs == 0..8

NextStore ==
    \/ \E w \in Workers, username \in StoreUsernames : RegisterCheck(w, username)
    \/ \E w \in Workers : RegisterInsert(w)
    \/ \E w \in Workers, written \in SaveOutcomes : RegisterSave(w, written)
    \/ \E w \in Workers : RegisterSession(w)
    \/ \E tok \in Tokens, id \in RoomIds, index \in StoreIndexInputs,
           written \in SaveOutcomes : GameMoveSave(tok, id, index, written)
    \/ \E tok \in Tokens, id \in RoomIds, written \in SaveOutcomes :
            LeaveGameSave(tok, id, written)
    \/ \E tok \in CreatorTokens, result \in ResultInputs, written \in SaveOutcomes :
            /\ tok \in DOMAIN sessions => scoreTotal(sessions[tok]) \in ScoreTotals
            /\ UpdateScoreSave(tok, result, written)

SpecStore == InitStore /\ [][NextStore]_vars

----------------------------------------------------------------------------
(* SpecLeader: handleLeaderboard on registries of up to three users with    *)
(* every score and every iteration order of the map, and on registries of  *)
(* ten and eleven users.                                                    *)

LeaderboardLimit == 10

WinValues == {0, 1, 2}

SmallSizes == {0, 1, 2, 3}

LargeSizes == {LeaderboardLimit, LeaderboardLimit + 1}

\* the wins of the users of a large registry: rising and falling with the id,
\* the last user alone ahead, all equal
LargeWins(n) ==
    {[u \in 1..n |-> u % 3],
     [u \in 1..n |-> (n - u) % 3],
     [u \in 1..n |-> IF u = n THEN 2 ELSE 0],
     [u \in 1..n |-> 1]}

leaderUsers(wins) ==
    [u \in DOMAIN wins |->
        [Username |-> usernameOf(u), Wins |-> wins[u], Losses |-> 0, Draws |-> 0]]

LeaderRegistries ==
    {leaderUsers(wins) : wins \in UNION {[1..n -> WinValues] : n \in SmallSizes}}
        \cup {leaderUsers(wins) : wins \in UNION {LargeWins(n) : n \in LargeSizes}}

\* handleLeaderboard: the orders in which range db.Users can visit the users
RangeOrders(us) ==
    LET n == Cardinality(DOMAIN us)
    IN  IF n \in SmallSizes
        THEN {o \in [1..n -> DOMAIN us] : \A i, j \in 1..n : o[i] = o[j] => i = j}
        ELSE {[i \in 1..n |-> i], [i \in 1..n |-> n + 1 - i], [i \in 1..n |-> (i % n) + 1]}

InitLeader ==
    /\ users \in LeaderRegistries
    /\ sessions = << >>
    /\ rooms = << >>
    /\ codes = << >>
    /\ idSeq = Cardinality(DOMAIN users)
    /\ now = 0
    /\ tokSeq = 0
    /\ inflight = [w \in Workers |-> Idle]
    /\ file = users
    /\ locks = Unlocked

\* inner loop bound that stops one comparison early
innerBoundShort(n, i) == n - i - 2

\* handleLeaderboard: j < len(users)-i-1
innerBound(n, i) == n - i - 1

\* handleLeaderboard: users[j], users[j+1] = users[j+1], users[j]; j counts
\* from 0 as in the code, the list from 1
swapAt(list, j) == [list EXCEPT ![j + 1] = list[j + 2], ![j + 2] = list[j + 1]]

RECURSIVE innerLoop(_, _, _, _)
\* handleLeaderboard: the loop over j
innerLoop(us, list, j, bound) ==
    IF j >= bound THEN list
    ELSE innerLoop(us,
                   IF us[list[j + 1]].Wins < us[list[j + 2]].Wins
                   THEN swapAt(list, j) ELSE list,
                   j + 1, bound)

RECURSIVE outerLoop(_, _, _)
\* handleLeaderboard: the loop over i
outerLoop(us, list, i) ==
    IF i >= Len(list) - 1 THEN list
    ELSE outerLoop(us, innerLoop(us, list, 0, innerBound(Len(list), i)), i + 1)

\* handleLeaderboard: users[:limit]
topTen(list) ==
    LET limit == IF Len(list) < LeaderboardLimit THEN Len(list) ELSE LeaderboardLimit
    IN  SubSeq(list, 1, limit)

\* handleLeaderboard: the users are copied out of db.Users under db.mu.RLock
LeaderboardCopy(w) ==
    /\ inflight[w].pc = "idle"
    /\ \E order \in RangeOrders(users) :
          inflight' = [inflight EXCEPT ![w] = [pc |-> "sort", copied |-> order]]
    /\ UNCHANGED <<users, sessions, rooms, codes, idSeq, now, tokSeq, file, locks>>

\* handleLeaderboard: the copy is sorted and its first entries are the response
LeaderboardRank(w) ==
    /\ inflight[w].pc = "sort"
    /\ inflight' = [inflight EXCEPT ![w] =
                        [pc |-> "ranked", copied |-> inflight[w].copied,
                         ranked |-> topTen(outerLoop(users, inflight[w].copied, 0))]]
    /\ UNCHANGED <<users, sessions, rooms, codes, idSeq, now, tokSeq, file, locks>>

NextLeader ==
    \/ \E w \in Workers : LeaderboardCopy(w)
    \/ \E w \in Workers : LeaderboardRank(w)

SpecLeader == InitLeader /\ [][NextLeader]_vars

----------------------------------------------------------------------------
(* SpecLocks: the handlers and the sweep as goroutines that take and        *)
(* release games.mu, db.mu and sessions.mu step by step. Two requests run   *)
(* at once next to the sweep; the room of the registry is idle for more     *)
(* than an hour, so a sweep that gets games.mu first deletes it. A counter  *)
(* increment is a load and a store.                                         *)

\* the goroutine of cleanupOldGames
Sweeper == "sweep"

Goroutines == Workers \cup {Sweeper}

\* a second token of the last user, which a logout request ends
SpareToken == NumUsers + 1

LockCodes == {"KQ7M2X", "HJ9P4Z", "W8R5CD"}

\* a request: its handler, its token and the fields of its body; text is the
\* result of an update score request and the emote type of an emote request
request(op, tok, code, id, index, text) ==
    [op |-> op, tok |-> tok, code |-> code, id |-> id, index |-> index, text |-> text]

NoRequest == request("", NoToken, "", Nil, -1, "")

\* the users that ask for the free seat
Joiners == {2, 3}

\* the requests that are served concurrently in SpecLocks
LockRequests ==
    {request("create", 3, "", Nil, -1, "")}
        \cup {request("join", tok, "KQ7M2X", Nil, -1, "") : tok \in Joiners}
        \cup {request("state", NoToken, "", 1, -1, "")}
        \cup {request("move", 1, "", 1, index, "") : index \in {2, 5}}
        \cup {request("move", 2, "", 1, 5, "")}
        \cup {request("leave", 2, "", 1, -1, "")}
        \cup {request("emote", tok, "", 1, -1, "deal_with_it") :
                    tok \in {NoToken, 1, SpareToken}}
        \cup {request("score", 1, "", Nil, -1, result) : result \in {"win", "tie"}}
        \cup {request("logout", SpareToken, "", Nil, -1, "")}

\* the requests of SpecLocksFair: a winning move, a join, an update score and
\* a logout
FairRequests ==
    {request("move", 1, "", 1, 2, ""),
     request("join", 3, "KQ7M2X", Nil, -1, ""),
     request("score", 1, "", Nil, -1, "win"),
     request("score", 1, "", Nil, -1, "tie"),
     request("logout", SpareToken, "", Nil, -1, "")}

LockIdle ==
    [pc |-> "idle", req |-> NoRequest, user |-> Nil, status |-> "", tmp |-> 0,
     todo |-> << >>, applied |-> << >>, room |-> Nil, sent |-> << >>, resp |-> << >>]

\* a waiting room of user 1 and a game of users 1 and 2 that X wins with
\* cell 2, both last touched at time 0
LockRooms == {newRoom("KQ7M2X", 3, 1), [roomWithBoard(3, NearWinBoard) EXCEPT !.LastMove = 4]}

InitLocks ==
    /\ users = [u \in UserIds |->
                    [Username |-> usernameOf(u), Wins |-> 0, Losses |-> 0, Draws |-> 0]]
    /\ sessions = [t \in UserIds |-> t] @@ (SpareToken :> NumUsers)
    /\ now = Hour + 1
    /\ \E room \in LockRooms : rooms = (1 :> [room EXCEPT !.UpdatedAt = 0])
    /\ codes = ("KQ7M2X" :> 1)
    /\ idSeq = 1
    /\ tokSeq = SpareToken
    /\ inflight = [g \in Goroutines |-> LockIdle]
    /\ file = users
    /\ locks = Unlocked

\* the goroutine moves on to pc
goto(g, pc) == inflight' = [inflight EXCEPT ![g].pc = pc]

\* the handler answers with status and returns
answer(g, status) == inflight' = [inflight EXCEPT ![g].pc = "done", ![g].status = status]

\* a request arrives: the handlers that call getUserFromToken answer
\* Unauthorized to an empty header, handleGameState goes for games.mu,
\* handleLogout for sessions.mu
Begin(g, r) ==
    /\ inflight[g].pc = "idle"
    /\ inflight' = [inflight EXCEPT ![g] =
            [LockIdle EXCEPT
                !.req = r,
                !.pc = IF r.op = "state" THEN "gamesLock"
                       ELSE IF r.op = "logout"
                       THEN (IF r.tok = NoToken THEN "done" ELSE "sessWait")
                       ELSE IF r.tok = NoToken THEN "done"
                       ELSE "sessRLock",
                !.status = IF r.op = "logout" THEN (IF r.tok = NoToken THEN "OK" ELSE "")
                           ELSE IF r.op # "state" /\ r.tok = NoToken THEN "Unauthorized"
                           ELSE ""]]
    /\ UNCHANGED <<users, sessions, rooms, codes, idSeq, now, tokSeq, file, locks>>

\* getUserFromToken: sessions.mu.RLock(), which waits for a writer that holds
\* or waits for the lock
SessionsRLock(g) ==
    /\ inflight[g].pc = "sessRLock"
    /\ locks.sessions = "" /\ locks.sessWaiting = {}
    /\ locks' = [locks EXCEPT !.sessReaders = @ \cup {g}]
    /\ goto(g, "sessRead")
    /\ UNCHANGED <<users, sessions, rooms, codes, idSeq, now, tokSeq, file>>

\* getUserFromToken: the lookup of the token and sessions.mu.RUnlock()
SessionsRUnlock(g) ==
    /\ inflight[g].pc = "sessRead"
    /\ locks' = [locks EXCEPT !.sessReaders = @ \ {g}]
    /\ IF inflight[g].req.tok \in DOMAIN sessions
       THEN inflight' = [inflight EXCEPT ![g].user = sessions[inflight[g].req.tok],
                                         ![g].pc = "dbRLock"]
       ELSE answer(g, "Unauthorized")
    /\ UNCHANGED <<users, sessions, rooms, codes, idSeq, now, tokSeq, file>>

\* where a handler goes after getUserFromToken
afterAuth(r) == IF r.op = "score" THEN "dbWait" ELSE "gamesLock"

\* getUserFromToken: db.mu.RLock()
DbRLock(g) ==
    /\ inflight[g].pc = "dbRLock"
    /\ locks.db = "" /\ locks.dbWaiting = {}
    /\ locks' = [locks EXCEPT !.dbReaders = @ \cup {g}]
    /\ goto(g, "dbRead")
    /\ UNCHANGED <<users, sessions, rooms, codes, idSeq, now, tokSeq, file>>

\* getUserFromToken: the lookup of the user and db.mu.RUnlock()
DbRUnlock(g) ==
    /\ inflight[g].pc = "dbRead"
    /\ locks' = [locks EXCEPT !.dbReaders = @ \ {g}]
    /\ IF inflight[g].user \in DOMAIN users
       THEN goto(g, afterAuth(inflight[g].req))
       ELSE answer(g, "Unauthorized")
    /\ UNCHANGED <<users, sessions, rooms, codes, idSeq, now, tokSeq, file>>

\* GamesLock that does not wait for the holder of games.mu
GamesLockNoWait(g) ==
    /\ inflight[g].pc = "gamesLock"
    /\ locks' = [locks EXCEPT !.games = g]
    /\ goto(g, IF g = Sweeper THEN "sweep" ELSE "lookup")
    /\ UNCHANGED <<users, sessions, rooms, codes, idSeq, now, tokSeq, file>>

\* games.mu.Lock() of a room handler or of the sweep
GamesLock(g) ==
    /\ inflight[g].pc = "gamesLock"
    /\ locks.games = ""
    /\ locks' = [locks EXCEPT !.games = g]
    /\ goto(g, IF g = Sweeper THEN "sweep" ELSE "lookup")
    /\ UNCHANGED <<users, sessions, rooms, codes, idSeq, now, tokSeq, file>>

\* the request of a goroutine, with a token that still resolves to the user
\* getUserFromToken returned to the handler
resolved(g) ==
    IF inflight[g].user = Nil THEN inflight[g].req
    ELSE [inflight[g].req EXCEPT
            !.tok = CHOOSE t \in DOMAIN sessions : sessions[t] = inflight[g].user]

\* the status a room handler answers with, from its lookups under games.mu
opStatus(r) ==
    CASE r.op = "create" -> createStatus(r.tok)
      [] r.op = "join" -> joinStatus(r.tok, r.code)
      [] r.op = "state" -> stateStatus(r.id)
      [] r.op = "move" -> moveStatus(r.tok, r.id, r.index)
      [] r.op = "leave" -> leaveStatus(r.tok, r.id)
      [] r.op = "emote" -> emoteStatus(r.tok, r.id)

\* the rooms a room handler leaves; code is the code of a created room
opRooms(r, code) ==
    CASE r.op = "create" ->
            rooms @@ ((idSeq + 1) :> newRoom(code, 3, getUserFromToken(r.tok)))
      [] r.op = "join" -> joinedRooms(r.tok, r.code)
      [] r.op = "state" -> readRooms(r.id)
      [] r.op = "move" -> movedRooms(r.tok, r.id, r.index)
      [] r.op = "leave" -> leftRooms(r.tok, r.id)
      [] r.op = "emote" -> emotedRooms(r.tok, r.id, r.text)

\* the code index a room handler leaves
opCodes(r, code) ==
    CASE r.op = "create" -> codes @@ (code :> (idSeq + 1))
      [] r.op = "leave" -> leftCodes(r.tok, r.id)
      [] OTHER -> codes

\* the users a room handler leaves when its increments are not interleaved
opUsers(r) ==
    CASE r.op = "move" -> movedUsers(r.tok, r.id, r.index)
      [] r.op = "leave" -> leftUsers(r.tok, r.id)
      [] OTHER -> users

\* the increments that lead from before to after for the players of a room,
\* in the order of the code: wins, losses, draws, X before O
increments(room, before, after) ==
    LET seats == SelectSeq(<<room.PlayerX, room.PlayerO>>, LAMBDA u : u # Nil)
        of(field) == SelectSeq(seats, LAMBDA u : after[u][field] = before[u][field] + 1)
        tag(list, field) == [i \in 1..Len(list) |-> <<list[i], field>>]
    IN  tag(of("Wins"), "Wins") \o tag(of("Losses"), "Losses") \o tag(of("Draws"), "Draws")

\* GamesLookup that gives games.mu up after the checks
GamesLookupRelease(g) ==
    /\ inflight[g].pc = "lookup"
    /\ inflight' = [inflight EXCEPT
            ![g].status = opStatus(resolved(g)),
            ![g].pc = IF opStatus(resolved(g)) = "OK" THEN "mutate" ELSE "gamesUnlock"]
    /\ locks' = [locks EXCEPT !.games = ""]
    /\ UNCHANGED <<users, sessions, rooms, codes, idSeq, now, tokSeq, file>>

\* the id of the room the handler's variable room points to
roomPointer(r) ==
    CASE r.op = "create" -> idSeq + 1
      [] r.op = "join" ->
            IF normalizeCode(r.code) \in DOMAIN codes THEN codes[normalizeCode(r.code)] ELSE Nil
      [] OTHER -> r.id

\* a room handler under games.mu: the lookups and checks up to the first write
GamesLookup(g) ==
    /\ inflight[g].pc = "lookup"
    /\ inflight' = [inflight EXCEPT
            ![g].room = roomPointer(inflight[g].req),
            ![g].status = opStatus(resolved(g)),
            ![g].pc = IF opStatus(resolved(g)) = "OK" THEN "mutate" ELSE "gamesUnlock"]
    /\ UNCHANGED <<users, sessions, rooms, codes, idSeq, now, tokSeq, file, locks>>

\* a room handler under games.mu: its writes to the room, the registry and
\* the code index; the score increments of a finished game are still to do
GamesMutate(g) ==
    LET r == resolved(g)
        todo == IF r.id \in DOMAIN rooms
                THEN increments(rooms[r.id], users, opUsers(r)) ELSE << >>
    IN  /\ inflight[g].pc = "mutate"
        /\ \E code \in LockCodes :
              /\ r.op = "create" => code \notin DOMAIN codes
              /\ r.op # "create" => code = "KQ7M2X"
              /\ rooms' = opRooms(r, code)
              /\ codes' = opCodes(r, code)
        /\ idSeq' = IF r.op = "create" THEN idSeq + 1 ELSE idSeq
        /\ inflight' = [inflight EXCEPT
                ![g].todo = todo,
                ![g].pc = IF todo = << >> THEN "gamesUnlock" ELSE "incLoad"]
        /\ UNCHANGED <<users, sessions, now, tokSeq, file, locks>>

\* Scores.X++: the counter is read
IncLoad(g) ==
    /\ inflight[g].pc = "incLoad"
    /\ inflight' = [inflight EXCEPT
            ![g].tmp = users[inflight[g].todo[1][1]][inflight[g].todo[1][2]],
            ![g].pc = "incStore"]
    /\ UNCHANGED <<users, sessions, rooms, codes, idSeq, now, tokSeq, file, locks>>

\* Scores.X++: the counter is written; after the last increment
\* handleUpdateScore unlocks db.mu and the room handlers call saveDatabase
IncStore(g) ==
    LET user == inflight[g].todo[1][1]
        field == inflight[g].todo[1][2]
        rest == Tail(inflight[g].todo)
    IN  /\ inflight[g].pc = "incStore"
        /\ users' = [users EXCEPT ![user][field] = inflight[g].tmp + 1]
        /\ inflight' = [inflight EXCEPT
                ![g].todo = rest,
                ![g].applied = Append(@, <<user, field>>),
                ![g].pc = IF rest # << >> THEN "incLoad"
                          ELSE IF inflight[g].req.op = "score" THEN "dbUnlock"
                          ELSE "saveRLock"]
        /\ UNCHANGED <<sessions, rooms, codes, idSeq, now, tokSeq, file, locks>>

\* saveDatabase: db.mu.RLock()
SaveRLock(g) ==
    /\ inflight[g].pc = "saveRLock"
    /\ locks.db = "" /\ locks.dbWaiting = {}
    /\ locks' = [locks EXCEPT !.dbReaders = @ \cup {g}]
    /\ goto(g, "saveWrite")
    /\ UNCHANGED <<users, sessions, rooms, codes, idSeq, now, tokSeq, file>>

\* saveDatabase: the file is written and db.mu.RUnlock() runs
SaveWrite(g) ==
    /\ inflight[g].pc = "saveWrite"
    /\ file' = saveDatabase(users, TRUE)
    /\ locks' = [locks EXCEPT !.dbReaders = @ \ {g}]
    /\ IF inflight[g].req.op = "score" THEN answer(g, "OK") ELSE goto(g, "gamesUnlock")
    /\ UNCHANGED <<users, sessions, rooms, codes, idSeq, now, tokSeq>>

\* the handlers that answer a successful request with jsonResponse(w, room)
RoomResponders == {"create", "join", "state", "move", "emote"}

\* the handler of the goroutine goes on to jsonResponse(w, room)
respondsWithRoom(g) ==
    /\ g # Sweeper
    /\ inflight[g].status = "OK"
    /\ inflight[g].req.op \in RoomResponders
    /\ inflight[g].room \in DOMAIN rooms

\* games.mu.Unlock(): the sweep waits for the next tick, a handler answers an
\* error or a leave at once and a room after the unlock; sent is the room as
\* the section leaves it
GamesUnlock(g) ==
    /\ inflight[g].pc = "gamesUnlock"
    /\ locks' = [locks EXCEPT !.games = ""]
    /\ inflight' = [inflight EXCEPT
            ![g].pc = IF g = Sweeper THEN "idle"
                      ELSE IF respondsWithRoom(g) THEN "respond" ELSE "done",
            ![g].sent = IF respondsWithRoom(g) THEN rooms[inflight[g].room] ELSE << >>]
    /\ UNCHANGED <<users, sessions, rooms, codes, idSeq, now, tokSeq, file>>

\* jsonResponse(w, room): the room object is serialised as it is now; an
\* object that was deleted from the registry is as the section left it
JsonResponse(g) ==
    /\ inflight[g].pc = "respond"
    /\ inflight' = [inflight EXCEPT
            ![g].pc = "done",
            ![g].resp = IF inflight[g].room \in DOMAIN rooms
                        THEN rooms[inflight[g].room] ELSE inflight[g].sent]
    /\ UNCHANGED <<users, sessions, rooms, codes, idSeq, now, tokSeq, file, locks>>

\* handleUpdateScore: db.mu.Lock() is called; readers that come later wait
DbWait(g) ==
    /\ inflight[g].pc = "dbWait"
    /\ locks' = [locks EXCEPT !.dbWaiting = @ \cup {g}]
    /\ goto(g, "dbLock")
    /\ UNCHANGED <<users, sessions, rooms, codes, idSeq, now, tokSeq, file>>

\* handleUpdateScore: db.mu.Lock() returns
DbLock(g) ==
    /\ inflight[g].pc = "dbLock"
    /\ locks.db = "" /\ locks.dbReaders = {}
    /\ locks' = [locks EXCEPT !.db = g, !.dbWaiting = @ \ {g}]
    /\ goto(g, "dbSwitch")
    /\ UNCHANGED <<users, sessions, rooms, codes, idSeq, now, tokSeq, file>>

\* the counter an update score request increments
resultField(result) ==
    IF result = "win" THEN "Wins" ELSE IF result = "loss" THEN "Losses" ELSE "Draws"

\* handleUpdateScore: switch req.Result
DbSwitch(g) ==
    LET r == resolved(g)
    IN  /\ inflight[g].pc = "dbSwitch"
        /\ inflight' = [inflight EXCEPT
                ![g].status = scoreStatus(r.tok, r.text),
                ![g].todo = IF scoreStatus(r.tok, r.text) = "OK"
                            THEN <<<<inflight[g].user, resultField(r.text)>>>>
                            ELSE << >>,
                ![g].pc = IF scoreStatus(r.tok, r.text) = "OK"
                          THEN "incLoad" ELSE "dbUnlock"]
        /\ UNCHANGED <<users, sessions, rooms, codes, idSeq, now, tokSeq, file, locks>>

\* DbUnlock whose error path returns with db.mu locked
DbUnlockNotOnError(g) ==
    /\ inflight[g].pc = "dbUnlock"
    /\ locks' = IF inflight[g].status = "OK" THEN [locks EXCEPT !.db = ""] ELSE locks
    /\ goto(g, IF inflight[g].status = "OK" THEN "saveRLock" ELSE "done")
    /\ UNCHANGED <<users, sessions, rooms, codes, idSeq, now, tokSeq, file>>

\* handleUpdateScore: db.mu.Unlock(), before the error answer or saveDatabase
DbUnlock(g) ==
    /\ inflight[g].pc = "dbUnlock"
    /\ locks' = [locks EXCEPT !.db = ""]
    /\ goto(g, IF inflight[g].status = "OK" THEN "saveRLock" ELSE "done")
    /\ UNCHANGED <<users, sessions, rooms, codes, idSeq, now, tokSeq, file>>

\* handleLogout: sessions.mu.Lock() is called
SessionsWait(g) ==
    /\ inflight[g].pc = "sessWait"
    /\ locks' = [locks EXCEPT !.sessWaiting = @ \cup {g}]
    /\ goto(g, "sessLock")
    /\ UNCHANGED <<users, sessions, rooms, codes, idSeq, now, tokSeq, file>>

\* handleLogout: sessions.mu.Lock() returns
SessionsLock(g) ==
    /\ inflight[g].pc = "sessLock"
    /\ locks.sessions = "" /\ locks.sessReaders = {}
    /\ locks' = [locks EXCEPT !.sessions = g, !.sessWaiting = @ \ {g}]
    /\ goto(g, "sessDelete")
    /\ UNCHANGED <<users, sessions, rooms, codes, idSeq, now, tokSeq, file>>

\* handleLogout: the token is deleted, sessions.mu.Unlock(), the answer
SessionsDelete(g) ==
    /\ inflight[g].pc = "sessDelete"
    /\ sessions' = removeKey(sessions, inflight[g].req.tok)
    /\ locks' = [locks EXCEPT !.sessions = ""]
    /\ answer(g, "OK")
    /\ UNCHANGED <<users, rooms, codes, idSeq, now, tokSeq, file>>

\* cleanupOldGames: the ticker fires
SweepBegin ==
    /\ inflight[Sweeper].pc = "idle"
    /\ goto(Sweeper, "gamesLock")
    /\ UNCHANGED <<users, sessions, rooms, codes, idSeq, now, tokSeq, file, locks>>

\* cleanupOldGames: the loop over the rooms under games.mu
SweepRooms ==
    /\ inflight[Sweeper].pc = "sweep"
    /\ rooms' = sweptRooms
    /\ codes' = sweptCodes
    /\ goto(Sweeper, "gamesUnlock")
    /\ UNCHANGED <<users, sessions, idSeq, now, tokSeq, file, locks>>

\* the steps of a goroutine that take a lock
Acquire(g) ==
    \/ SessionsRLock(g)
    \/ DbRLock(g)
    \/ GamesLock(g)
    \/ SaveRLock(g)
    \/ DbLock(g)
    \/ SessionsLock(g)

\* the steps of a goroutine that wait for nothing
Proceed(g) ==
    \/ SessionsRUnlock(g)
    \/ DbRUnlock(g)
    \/ GamesLookup(g)
    \/ GamesMutate(g)
    \/ IncLoad(g)
    \/ IncStore(g)
    \/ SaveWrite(g)
    \/ GamesUnlock(g)
    \/ JsonResponse(g)
    \/ DbWait(g)
    \/ DbSwitch(g)
    \/ DbUnlock(g)
    \/ SessionsWait(g)
    \/ SessionsDelete(g)

NextLocks ==
    \/ \E g \in Workers, r \in LockRequests : Begin(g, r)
    \/ \E g \in Goroutines : Acquire(g)
    \/ \E g \in Goroutines : Proceed(g)
    \/ SweepBegin
    \/ SweepRooms

SpecLocks == InitLocks /\ [][NextLocks]_vars

NextLocksFair ==
    \/ \E g \in Workers, r \in FairRequests : Begin(g, r)
    \/ \E g \in Goroutines : Acquire(g)
    \/ \E g \in Goroutines : Proceed(g)
    \/ SweepBegin
    \/ SweepRooms

\* a goroutine that can run does run, and a goroutine that waits for a lock
\* gets it when the lock is free again and again: sync.Mutex and
\* sync.RWMutex hand a lock to a goroutine that has waited
SpecLocksFair ==
    /\ InitLocks
    /\ [][NextLocksFair]_vars
    /\ \A g \in Goroutines : WF_vars(Proceed(g)) /\ SF_vars(Acquire(g))
    /\ WF_vars(SweepRooms)

----------------------------------------------------------------------------
(* Properties *)

otherMark(mark) == IF mark = "X" THEN "O" ELSE "X"

changedCells(old, new) == {i \in DOMAIN old : old[i] # new[i]}

marked(board) == {i \in DOMAIN board : board[i] # ""}

authenticated(tok) == getUserFromToken(tok) # Nil

seated(room, user) == room.PlayerX = user \/ room.PlayerO = user

\* a token of the user
tokenOf(user) == CHOOSE t \in DOMAIN sessions : sessions[t] = user

\* C1: a new room starts with turn "X"; the turn marker changes only by an
\* accepted move; an accepted move writes the mark of the turn marker into one
\* empty cell of a playing room and, unless it ends the game, flips the marker:
\* accepted moves are made by X, O, X, O, ... until the room is finished.
C1_TurnAlternates ==
    [][\A id \in DOMAIN rooms' :
          IF id \notin DOMAIN rooms
          THEN rooms'[id].CurrentTurn = "X" /\ marked(rooms'[id].Board) = {}
          ELSE LET old == rooms[id]
                   new == rooms'[id]
                   changed == changedCells(old.Board, new.Board)
               IN  IF changed = {}
                   THEN new.CurrentTurn = old.CurrentTurn
                   ELSE /\ old.Status = "playing"
                        /\ Cardinality(changed) = 1
                        /\ \A i \in changed :
                              old.Board[i] = "" /\ new.Board[i] = old.CurrentTurn
                        /\ new.Status # "finished"
                              => new.CurrentTurn = otherMark(old.CurrentTurn)
      ]_vars

\* C1 witness: three accepted moves (X, O, X) were made and it is O's turn
C1_Witness ==
    \E id \in DOMAIN rooms :
        /\ rooms[id].Status = "playing"
        /\ Cardinality(marked(rooms[id].Board)) = 3
        /\ Cardinality({i \in DOMAIN rooms[id].Board : rooms[id].Board[i] = "X"}) = 2
        /\ rooms[id].CurrentTurn = "O"

\* the reasons of C2 for which a move request is turned down
moveRefused(room, user, index) ==
    \/ room.Status # "playing"
    \/ room.CurrentTurn # playerSymbolOf(room, user)
    \/ index < 0 \/ index >= room.BoardSize * room.BoardSize
    \/ room.Board[index] # ""

\* C2 as stated: every such request of an authenticated caller is answered
\* BadRequest (also when the caller is not seated in a playing room).
C2_Original ==
    \A tok \in Tokens, id \in DOMAIN rooms, index \in AllIndexInputs :
        authenticated(tok) /\ moveRefused(rooms[id], getUserFromToken(tok), index)
            => moveStatus(tok, id, index) = "BadRequest"

\* C2: a move request of an authenticated caller on an existing room is
\* rejected and handleGameMove leaves the room registry and the scores as they
\* were whenever the status is not playing, it is not the caller's turn, the
\* index is out of range or the cell is occupied; the answer is BadRequest,
\* except Forbidden when the room is playing and the caller is not seated in it.
C2_RejectedUnchanged ==
    \A tok \in Tokens, id \in DOMAIN rooms, index \in AllIndexInputs :
        authenticated(tok) /\ moveRefused(rooms[id], getUserFromToken(tok), index)
          => /\ moveStatus(tok, id, index) =
                    IF rooms[id].Status = "playing"
                       /\ ~seated(rooms[id], getUserFromToken(tok))
                    THEN "Forbidden" ELSE "BadRequest"
             /\ movedRooms(tok, id, index) = rooms
             /\ movedUsers(tok, id, index) = users

\* C2 witness: a playing room with an occupied cell, where a move on that cell,
\* a move out of range and a move out of turn are there to be refused
C2_Witness ==
    \E id \in DOMAIN rooms :
        /\ rooms[id].Status = "playing"
        /\ rooms[id].Board[0] = "X"
        /\ rooms[id].CurrentTurn = "O"
        /\ moveStatus(tokenOf(rooms[id].PlayerO), id, 0) = "BadRequest"
        /\ moveStatus(tokenOf(rooms[id].PlayerO), id, 9) = "BadRequest"
        /\ moveStatus(tokenOf(rooms[id].PlayerX), id, 1) = "BadRequest"

\* C3 as stated: every move request of an authenticated caller who holds no
\* seat of the room is answered Forbidden (also when the room is not playing).
C3_Original ==
    \A tok \in Tokens, id \in DOMAIN rooms, index \in AllIndexInputs :
        authenticated(tok) /\ ~seated(rooms[id], getUserFromToken(tok))
            => moveStatus(tok, id, index) = "Forbidden"

\* C3: a move request on an existing room by an authenticated user who is
\* neither player-X nor player-O is rejected and handleGameMove leaves the room
\* registry and the scores as they were; the answer is Forbidden when the room
\* is playing, and BadRequest when the room is waiting or finished.
C3_UnseatedRejected ==
    \A tok \in Tokens, id \in DOMAIN rooms, index \in AllIndexInputs :
        authenticated(tok) /\ ~seated(rooms[id], getUserFromToken(tok))
          => /\ moveStatus(tok, id, index) =
                    IF rooms[id].Status = "playing" THEN "Forbidden" ELSE "BadRequest"
             /\ movedRooms(tok, id, index) = rooms
             /\ movedUsers(tok, id, index) = users

\* C3 witness: a playing room with marks on the board and a logged-in user
\* who holds no seat, whose move on an empty cell is Forbidden
C3_Witness ==
    \E id \in DOMAIN rooms, tok \in Tokens :
        /\ rooms[id].Status = "playing"
        /\ marked(rooms[id].Board) # {}
        /\ authenticated(tok)
        /\ ~seated(rooms[id], getUserFromToken(tok))
        /\ \E index \in DOMAIN rooms[id].Board :
              rooms[id].Board[index] = "" /\ moveStatus(tok, id, index) = "Forbidden"

\* C4: waiting => player-O absent; playing => both players present and no
\* winner; finished => winner is "X", "O" or "draw".
C4_StatusInvariant ==
    \A id \in DOMAIN rooms :
        /\ rooms[id].Status \in {"waiting", "playing", "finished"}
        /\ rooms[id].Status = "waiting" => rooms[id].PlayerO = Nil
        /\ rooms[id].Status = "playing" =>
              /\ rooms[id].PlayerX # Nil
              /\ rooms[id].PlayerO # Nil
              /\ rooms[id].Winner = ""
        /\ rooms[id].Status = "finished" => rooms[id].Winner \in {"X", "O", "draw"}

\* C4 witness: a room finished by a draw
C4_Witness ==
    \E id \in DOMAIN rooms :
        rooms[id].Status = "finished" /\ rooms[id].Winner = "draw"

\* the 3-in-a-row lines of a 3x3 board
WinLines3 ==
    {<<0, 1, 2>>, <<3, 4, 5>>, <<6, 7, 8>>, <<0, 3, 6>>, <<1, 4, 7>>, <<2, 5, 8>>,
     <<0, 4, 8>>, <<2, 4, 6>>}

\* the lines of the board that hold the mark in all three cells
linesOf(board, mark) == {l \in WinLines3 : \A i \in 1..3 : board[l[i]] = mark}

hasLine(board) == \E mark \in {"X", "O"} : linesOf(board, mark) # {}

\* the registry after the score deltas of one terminal transition: +1 win for
\* the winner's seat and +1 loss for the other seat, or +1 draw for both seats
scoresAfter(us, playerX, playerO, winner) ==
    [u \in DOMAIN us |->
        [Username |-> us[u].Username,
         Wins |-> us[u].Wins
            + (IF (winner = "X" /\ u = playerX) \/ (winner = "O" /\ u = playerO)
               THEN 1 ELSE 0),
         Losses |-> us[u].Losses
            + (IF (winner = "X" /\ u = playerO) \/ (winner = "O" /\ u = playerX)
               THEN 1 ELSE 0),
         Draws |-> us[u].Draws
            + (IF winner = "draw" /\ (u = playerX \/ u = playerO) THEN 1 ELSE 0)]]

\* some request addressed to the room takes this step
operationOn(id) ==
    \/ \E tok \in Tokens, index \in AllIndexInputs : GameMove(tok, id, index)
    \/ \E tok \in Tokens : LeaveGame(tok, id)
    \/ \E tok \in Tokens, e \in EmoteInputs : GameEmote(tok, id, e)
    \/ \E tok \in Tokens, codeIn \in CodeInputs :
          normalizeCode(codeIn) = rooms[id].Code /\ JoinGame(tok, codeIn)
    \/ GameState(id)

\* C5: the scores change only in the step that takes one room from playing to
\* finished, and then by exactly the deltas of that room's result; a finished
\* room keeps its status, winner, board and seats for as long as it is in the
\* registry, no request addressed to it changes a score, and a room id that left
\* the registry is not handed out again: the deltas are applied once per room.
C5_ScoredOnce ==
    [][/\ \A id \in DOMAIN rooms :
             rooms[id].Status = "finished" =>
                /\ id \in DOMAIN rooms' =>
                      /\ rooms'[id].Status = "finished"
                      /\ rooms'[id].Winner = rooms[id].Winner
                      /\ rooms'[id].Board = rooms[id].Board
                      /\ rooms'[id].PlayerX = rooms[id].PlayerX
                      /\ rooms'[id].PlayerO = rooms[id].PlayerO
                /\ users' # users => ~operationOn(id)
       /\ users' # users =>
             \E id \in DOMAIN rooms \cap DOMAIN rooms' :
                /\ rooms[id].Status = "playing"
                /\ rooms'[id].Status = "finished"
                /\ users' = scoresAfter(users, rooms[id].PlayerX, rooms[id].PlayerO,
                                        rooms'[id].Winner)
       /\ \A id \in DOMAIN rooms' \ DOMAIN rooms :
             id > idSeq /\ idSeq' = id /\ rooms'[id].Status = "waiting"
       /\ idSeq' >= idSeq
      ]_vars

\* C5 witness: a room finished on the board, scored once, on which an emote was
\* requested after the clock advanced
C5_Witness ==
    \E id \in DOMAIN rooms :
        /\ rooms[id].Status = "finished"
        /\ rooms[id].WinningLine # <<>>
        /\ rooms[id].ShowEmote
        /\ rooms[id].EmoteAt > 0
        /\ users[rooms[id].PlayerX].Wins + users[rooms[id].PlayerX].Losses = 1
        /\ users[rooms[id].PlayerO].Wins + users[rooms[id].PlayerO].Losses = 1

\* the board after the moves X:4, O:0, X:1, O:2, X:7
ScenarioABoard ==
    (0 :> "O") @@ (1 :> "X") @@ (2 :> "O") @@ (3 :> "") @@ (4 :> "X")
        @@ (5 :> "") @@ (6 :> "") @@ (7 :> "X") @@ (8 :> "")

\* C6: an accepted move that completes a line sets winner to the mover's mark,
\* winning-line to a line of that mark, status to finished, gives the winner's
\* seat +1 win and the other seat +1 loss and nothing else, and leaves the turn
\* marker; after X:4, O:0, X:1, O:2, X:7 the winner is "X" with line [1,4,7].
C6_WinningMove ==
    [][\A id \in DOMAIN rooms \cap DOMAIN rooms' :
          LET old == rooms[id]
              new == rooms'[id]
          IN  /\ changedCells(old.Board, new.Board) # {} /\ hasLine(new.Board) =>
                    /\ linesOf(new.Board, old.CurrentTurn) # {}
                    /\ new.Winner = old.CurrentTurn
                    /\ new.WinningLine \in linesOf(new.Board, old.CurrentTurn)
                    /\ new.Status = "finished"
                    /\ new.CurrentTurn = old.CurrentTurn
                    /\ users' = scoresAfter(users, old.PlayerX, old.PlayerO,
                                            old.CurrentTurn)
              /\ new.Board = ScenarioABoard /\ new.LastMove = 7 =>
                    /\ new.Winner = "X"
                    /\ new.WinningLine = <<1, 4, 7>>
                    /\ new.Status = "finished"
      ]_vars

\* C6 witness: scenario A was played to its end and scored
C6_Witness ==
    \E id \in DOMAIN rooms :
        /\ rooms[id].Board = ScenarioABoard
        /\ rooms[id].LastMove = 7
        /\ rooms[id].Status = "finished"
        /\ users[rooms[id].PlayerX].Wins = 1
        /\ users[rooms[id].PlayerO].Losses = 1

\* C7: an accepted move that fills the last empty cell ends the game: without a
\* completed line the winner is "draw" and both seats get +1 draw and nothing
\* else; with a completed line the winner is the mover's mark, not "draw".
C7_LastCell ==
    [][\A id \in DOMAIN rooms \cap DOMAIN rooms' :
          LET old == rooms[id]
              new == rooms'[id]
          IN  changedCells(old.Board, new.Board) # {}
              /\ marked(new.Board) = DOMAIN new.Board =>
                    /\ new.Status = "finished"
                    /\ IF hasLine(new.Board)
                       THEN /\ new.Winner = old.CurrentTurn
                            /\ users' = scoresAfter(users, old.PlayerX, old.PlayerO,
                                                    old.CurrentTurn)
                       ELSE /\ new.Winner = "draw"
                            /\ users' = scoresAfter(users, old.PlayerX, old.PlayerO,
                                                    "draw")
      ]_vars

\* C7 witness: a full board without a line, scored as a draw for both seats
C7_Witness ==
    \E id \in DOMAIN rooms :
        /\ marked(rooms[id].Board) = DOMAIN rooms[id].Board
        /\ ~hasLine(rooms[id].Board)
        /\ rooms[id].Winner = "draw"
        /\ users[rooms[id].PlayerX].Draws = 1
        /\ users[rooms[id].PlayerO].Draws = 1

\* a full board with a line: the last cell completed it
C7_FullBoardWin ==
    \E id \in DOMAIN rooms :
        /\ marked(rooms[id].Board) = DOMAIN rooms[id].Board
        /\ hasLine(rooms[id].Board)
        /\ rooms[id].Winner = "X"

\* the moves X:0, O:1, X:2, O:3, X:4, O:6, X:5, O:7, X:8
ScenarioBMoves == <<0, 1, 2, 3, 4, 6, 5, 7, 8>>

\* the board after the first k moves of scenario B
scenarioBBoard(k) ==
    [i \in 0..8 |->
        IF \E j \in 1..k : ScenarioBMoves[j] = i
        THEN IF (CHOOSE j \in 1..k : ScenarioBMoves[j] = i) % 2 = 1 THEN "X" ELSE "O"
        ELSE ""]

\* in a playing room that stands after k moves of scenario B, move k+1 of the
\* scenario is accepted from the player whose mark it is and gives the board of
\* k+1 moves
scenarioBStep(id, k) ==
    LET room == rooms[id]
        mark == IF k % 2 = 0 THEN "X" ELSE "O"
        user == IF mark = "X" THEN room.PlayerX ELSE room.PlayerO
        after == applyMove(room, mark, ScenarioBMoves[k + 1])
    IN  room.Status = "playing" /\ room.Board = scenarioBBoard(k) =>
            /\ moveStatus(tokenOf(user), id, ScenarioBMoves[k + 1]) = "OK"
            /\ after.Board = scenarioBBoard(k + 1)
            /\ k + 1 < 9 => after.Status = "playing"

\* C8 as stated: the sequence is accepted in full and ends in a draw.
C8_Original ==
    \A id \in DOMAIN rooms :
        /\ \A k \in 0..8 : scenarioBStep(id, k)
        /\ rooms[id].Board = scenarioBBoard(9) =>
              rooms[id].Winner = "draw" /\ rooms[id].Status = "finished"

\* C8: in a playing 3x3 room the sequence X:0, O:1, X:2, O:3, X:4, O:6, X:5,
\* O:7, X:8 is accepted in full and fills all nine cells; the last move
\* completes column 2-5-8 (and diagonal 0-4-8) for X, so the room ends finished
\* with winner "X" and winning line [2,5,8], not with a draw.
C8_ScenarioB ==
    \A id \in DOMAIN rooms :
        /\ \A k \in 0..8 : scenarioBStep(id, k)
        /\ rooms[id].Board = scenarioBBoard(9) =>
              /\ marked(rooms[id].Board) = 0..8
              /\ rooms[id].Winner = "X"
              /\ rooms[id].WinningLine = <<2, 5, 8>>
              /\ rooms[id].Status = "finished"

\* C8 witness: the nine moves were played, the last one on cell 8
C8_Witness ==
    \E id \in DOMAIN rooms :
        rooms[id].Board = scenarioBBoard(9) /\ rooms[id].LastMove = 8

\* C9: a leave by a seated player of a playing room finishes the room with the
\* other mark as winner, gives the remaining seat +1 win and the leaving seat +1
\* loss and nothing else, changes nothing else of the room, and keeps the room
\* and its code mapping in the registry.
C9_Forfeit ==
    [][\A tok \in Tokens, id \in DOMAIN rooms :
          LET user == getUserFromToken(tok)
              winner == IF rooms[id].PlayerX = user THEN "O" ELSE "X"
          IN  /\ authenticated(tok)
              /\ rooms[id].Status = "playing"
              /\ seated(rooms[id], user)
              /\ LeaveGame(tok, id)
              => /\ id \in DOMAIN rooms'
                 /\ rooms'[id] = [rooms[id] EXCEPT !.Winner = winner,
                                                   !.Status = "finished"]
                 /\ users' = scoresAfter(users, rooms[id].PlayerX, rooms[id].PlayerO,
                                         winner)
                 /\ codes' = codes
                 /\ rooms[id].Code \in DOMAIN codes /\ codes[rooms[id].Code] = id
      ]_vars

\* C9 witness: player-O left a game in progress: X won without a line
C9_Witness ==
    \E id \in DOMAIN rooms :
        /\ rooms[id].Status = "finished"
        /\ rooms[id].Winner = "X"
        /\ rooms[id].WinningLine = <<>>
        /\ marked(rooms[id].Board) # {}
        /\ users[rooms[id].PlayerX].Wins = 1
        /\ users[rooms[id].PlayerO].Losses = 1
        /\ codes[rooms[id].Code] = id

\* C10 as stated: every operation that changes a room that stays in the
\* registry (join, accepted move, forfeit by leave, emote, emote clearing by
\* read state) sets the room's updated_at to the current time.
C10_Original ==
    [][\A id \in DOMAIN rooms \cap DOMAIN rooms' :
          rooms'[id] # rooms[id] => rooms'[id].UpdatedAt = now
      ]_vars

\* C10, the forfeit alone: a leave that finishes a playing room refreshes
\* updated_at.
C10_ForfeitRefreshes ==
    [][\A id \in DOMAIN rooms \cap DOMAIN rooms' :
          rooms[id].Status = "playing" /\ rooms'[id].Status = "finished"
            => rooms'[id].UpdatedAt = now
      ]_vars

\* C10, the emote clearing alone: a read that clears the emote refreshes
\* updated_at.
C10_ClearRefreshes ==
    [][\A id \in DOMAIN rooms \cap DOMAIN rooms' :
          rooms[id].ShowEmote /\ ~rooms'[id].ShowEmote => rooms'[id].UpdatedAt = now
      ]_vars

\* the part of C10 the handlers do keep: join, accepted move and emote set
\* updated_at to the current time
C10_JoinMoveEmoteRefresh ==
    [][\A id \in DOMAIN rooms \cap DOMAIN rooms' :
          \/ rooms'[id].PlayerO # rooms[id].PlayerO
          \/ rooms'[id].Board # rooms[id].Board
          \/ rooms'[id].EmoteAt # rooms[id].EmoteAt
          \/ (rooms'[id].ShowEmote /\ ~rooms[id].ShowEmote)
          => rooms'[id].UpdatedAt = now
      ]_vars

\* C11: the code index and the room registry correspond one to one: every code
\* maps to a room of the registry that carries this code, every room's code maps
\* to this room, and no two rooms carry the same code; as this holds after every
\* step, a room and its code entry leave the registries in the same step.
C11_CodeIndexBijection ==
    /\ \A c \in DOMAIN codes :
          codes[c] \in DOMAIN rooms /\ rooms[codes[c]].Code = c
    /\ \A id \in DOMAIN rooms :
          rooms[id].Code \in DOMAIN codes /\ codes[rooms[id].Code] = id
    /\ \A i, j \in DOMAIN rooms : i # j => rooms[i].Code # rooms[j].Code

\* C11 witness: two rooms are live under the two codes after an earlier room
\* and its code entry were removed (the third room holds a recycled code)
C11_Witness ==
    /\ 3 \in DOMAIN rooms
    /\ Cardinality(DOMAIN rooms) = 2
    /\ Cardinality(DOMAIN codes) = 2

\* the room a join request addresses: the one its normalised code maps to
roomOfCode(codeIn) == codes[normalizeCode(codeIn)]

codeKnown(codeIn) ==
    /\ normalizeCode(codeIn) \in DOMAIN codes
    /\ roomOfCode(codeIn) \in DOMAIN rooms

\* C12: handleJoinGame seats the caller exactly when the caller is an
\* authenticated user who is not player-X of the room found by the code and
\* the room's player-O slot is empty: the caller becomes player-O, the status
\* goes from waiting to playing, updated_at is refreshed, and board, turn marker
\* and every other room are as before; in every reachable state player-X and
\* player-O of a room are distinct users.
C12_JoinSeatsO ==
    /\ \A id \in DOMAIN rooms :
          rooms[id].PlayerX # Nil /\ rooms[id].PlayerX # rooms[id].PlayerO
    /\ \A tok \in Tokens, codeIn \in CodeInputs :
          LET user == getUserFromToken(tok)
              after == joinedRooms(tok, codeIn)
          IN  IF authenticated(tok) /\ codeKnown(codeIn)
                 /\ rooms[roomOfCode(codeIn)].PlayerX # user
                 /\ rooms[roomOfCode(codeIn)].PlayerO = Nil
              THEN /\ joinStatus(tok, codeIn) = "OK"
                   /\ rooms[roomOfCode(codeIn)].Status = "waiting"
                   /\ after = [rooms EXCEPT ![roomOfCode(codeIn)] =
                                  [@ EXCEPT !.PlayerO = user, !.Status = "playing",
                                            !.UpdatedAt = now]]
                   /\ after[roomOfCode(codeIn)].Board = rooms[roomOfCode(codeIn)].Board
                   /\ after[roomOfCode(codeIn)].CurrentTurn = "X"
              ELSE after = rooms

\* C12 witness: a second user joined a waiting room an hour after it was
\* created: the room is playing, with two distinct players and an empty board
C12_Witness ==
    \E id \in DOMAIN rooms :
        /\ rooms[id].Status = "playing"
        /\ rooms[id].PlayerO # Nil
        /\ rooms[id].PlayerO # rooms[id].PlayerX
        /\ rooms[id].UpdatedAt = Hour
        /\ marked(rooms[id].Board) = {}

\* C13: a join by a user who is already player-X or player-O of the room found
\* by the code is answered with the room and leaves the room registry as it is
\* (no second seat, no status change, no updated_at change), whatever the
\* room's status; the state being unchanged, so it is for any number of repeats.
C13_JoinIdempotent ==
    \A tok \in Tokens, codeIn \in CodeInputs :
        authenticated(tok) /\ codeKnown(codeIn)
        /\ seated(rooms[roomOfCode(codeIn)], getUserFromToken(tok))
          => /\ joinStatus(tok, codeIn) = "OK"
             /\ joinedRooms(tok, codeIn) = rooms

\* C13 witness: a room finished on the board some time after its last update,
\* which both of its players can ask to join again
C13_Witness ==
    \E id \in DOMAIN rooms :
        /\ rooms[id].Status = "finished"
        /\ rooms[id].WinningLine # <<>>
        /\ now > rooms[id].UpdatedAt
        /\ joinStatus(tokenOf(rooms[id].PlayerX), " kq7m2x ") = "OK"
        /\ joinStatus(tokenOf(rooms[id].PlayerO), rooms[id].Code) = "OK"

\* C14: a join by an authenticated caller is answered NotFound when the code
\* maps to no room, and Conflict when the room's player-O slot is taken and the
\* caller holds no seat of the room; in both cases handleJoinGame, which never
\* writes the code index, leaves the room registry and every room as they were.
C14_JoinRejected ==
    \A tok \in Tokens, codeIn \in CodeInputs :
        authenticated(tok) =>
          /\ ~codeKnown(codeIn) =>
                /\ joinStatus(tok, codeIn) = "NotFound"
                /\ joinedRooms(tok, codeIn) = rooms
          /\ codeKnown(codeIn)
             /\ rooms[roomOfCode(codeIn)].PlayerO # Nil
             /\ ~seated(rooms[roomOfCode(codeIn)], getUserFromToken(tok)) =>
                /\ joinStatus(tok, codeIn) = "Conflict"
                /\ joinedRooms(tok, codeIn) = rooms

\* C14 witness: a room with both seats taken and a third user, whose join by
\* the room's code is answered Conflict and by another code NotFound
C14_Witness ==
    \E id \in DOMAIN rooms, tok \in Tokens :
        /\ rooms[id].PlayerO # Nil
        /\ authenticated(tok)
        /\ ~seated(rooms[id], getUserFromToken(tok))
        /\ joinStatus(tok, rooms[id].Code) = "Conflict"
        /\ \E codeIn \in CodeInputs : joinStatus(tok, codeIn) = "NotFound"

\* C15: a leave by an authenticated caller on a room that is waiting or
\* finished succeeds, deletes the room and its code mapping and changes no
\* score; a leave on a room id that is not in the registry succeeds and changes
\* nothing, so a repeated leave finds the room gone and changes nothing.
C15_LeaveDeletes ==
    \A tok \in Tokens, id \in RoomIds :
        authenticated(tok) =>
          /\ leaveStatus(tok, id) = "OK"
          /\ id \notin DOMAIN rooms =>
                /\ leftRooms(tok, id) = rooms
                /\ leftCodes(tok, id) = codes
                /\ leftUsers(tok, id) = users
          /\ id \in DOMAIN rooms /\ rooms[id].Status \in {"waiting", "finished"} =>
                /\ DOMAIN leftRooms(tok, id) = DOMAIN rooms \ {id}
                /\ \A other \in DOMAIN rooms \ {id} :
                      leftRooms(tok, id)[other] = rooms[other]
                /\ DOMAIN leftCodes(tok, id) = DOMAIN codes \ {rooms[id].Code}
                /\ \A c \in DOMAIN codes \ {rooms[id].Code} :
                      leftCodes(tok, id)[c] = codes[c]
                /\ leftUsers(tok, id) = users

\* C15 witness: a game was finished and scored, and a leave then deleted the
\* finished room and its code (the sweep deletes nothing before the clock
\* moves): a further leave addresses a room id that is gone
C15_Witness ==
    /\ idSeq = 1
    /\ rooms = << >>
    /\ codes = << >>
    /\ now = 0
    /\ \E u \in DOMAIN users : users[u].Wins = 1
    /\ \E tok \in Tokens : authenticated(tok) /\ leftRooms(tok, 1) = rooms

\* C16: in every step a cell that holds a mark keeps this mark while the room
\* is in the registry (and the id of a removed room is not handed out again),
\* and a step that changes a board changes exactly one cell, from empty to the
\* mark of a seated player whose move on this cell is accepted in the state
\* before the step.
C16_CellsImmutable ==
    [][/\ \A id \in DOMAIN rooms \cap DOMAIN rooms' :
             LET old == rooms[id]
                 new == rooms'[id]
                 changed == changedCells(old.Board, new.Board)
             IN  /\ DOMAIN new.Board = DOMAIN old.Board
                 /\ \A i \in marked(old.Board) : new.Board[i] = old.Board[i]
                 /\ Cardinality(changed) <= 1
                 /\ \A i \in changed :
                       /\ old.Board[i] = ""
                       /\ new.Board[i] \in {"X", "O"}
                       /\ \E tok \in Tokens :
                             /\ moveStatus(tok, id, i) = "OK"
                             /\ playerSymbolOf(old, getUserFromToken(tok)) = new.Board[i]
       /\ \A id \in DOMAIN rooms' \ DOMAIN rooms : id > idSeq
      ]_vars

\* C16 witness: a game in progress after five accepted moves, with the three
\* marks of X and the two marks of O on the board and cell 8 played last
C16_Witness ==
    \E id \in DOMAIN rooms :
        /\ rooms[id].Status = "playing"
        /\ Cardinality({i \in DOMAIN rooms[id].Board : rooms[id].Board[i] = "X"}) = 3
        /\ Cardinality({i \in DOMAIN rooms[id].Board : rooms[id].Board[i] = "O"}) = 2
        /\ rooms[id].LastMove = 8

\* the run length the game asks for on a board of this size
runLength(size) == IF size = 3 THEN 3 ELSE 4

cellsOf(line) == {line[i] : i \in 1..Len(line)}

\* the horizontal, vertical and diagonal runs of the required length whose
\* cells all hold the same mark
completeRuns(board, size) ==
    {l \in segments(size, runLength(size)) :
        \E mark \in Marks : \A i \in cellsOf(l) : board[i] = mark}

\* C17: on every board of size 3 (run length 3) and of size 5 (run length 4)
\* checkWinner reports a winner if and only if some horizontal, vertical or
\* diagonal run of the required length holds one mark in all its cells, and the
\* mark and the line it reports are the mark and the cells of such a run; the
\* result recorded in a finished room is this result.
C17_CheckWinner ==
    \A id \in DOMAIN rooms :
        LET board == rooms[id].Board
            size == rooms[id].BoardSize
            result == checkWinner(board, size)
        IN  /\ size \in BoardSizes
            /\ result[1] # "" <=> completeRuns(board, size) # {}
            /\ result[1] # "" =>
                  /\ result[1] \in Marks
                  /\ \E l \in completeRuns(board, size) :
                        /\ cellsOf(result[2]) = cellsOf(l)
                        /\ \A i \in cellsOf(l) : board[i] = result[1]
                  /\ Len(result[2]) = runLength(size)
            /\ result[1] = "" => result[2] = <<>>
            /\ rooms[id].Status = "finished" =>
                  rooms[id].Winner = result[1] /\ rooms[id].WinningLine = result[2]

\* C17 witness: a 5x5 board with four O in a row and three X in a row, on which
\* the run of O was reported
C17_Witness ==
    \E id \in DOMAIN rooms :
        /\ rooms[id].BoardSize = 5
        /\ rooms[id].Status = "finished"
        /\ rooms[id].Winner = "O"
        /\ Len(rooms[id].WinningLine) = 4
        /\ Cardinality({i \in DOMAIN rooms[id].Board : rooms[id].Board[i] = "O"}) = 4
        /\ Cardinality({i \in DOMAIN rooms[id].Board : rooms[id].Board[i] = "X"}) = 3

\* C18: a sweep deletes exactly the rooms whose updated_at lies more than one
\* hour before the sweep time, each together with its code mapping: after the
\* sweep no such room is in the registry and its code is absent from the code
\* index, hence free for a new room; every room updated within the last hour
\* stays as it is, with its code mapping.
C18_SweepExact ==
    [][Cleanup =>
          /\ \A id \in DOMAIN rooms :
                id \notin DOMAIN rooms' <=> now - rooms[id].UpdatedAt > Hour
          /\ \A id \in DOMAIN rooms' :
                /\ id \in DOMAIN rooms
                /\ rooms'[id] = rooms[id]
                /\ now' - rooms'[id].UpdatedAt <= Hour
                /\ rooms[id].Code \in DOMAIN codes'
                /\ codes'[rooms[id].Code] = id
          /\ \A id \in DOMAIN rooms \ DOMAIN rooms' :
                rooms[id].Code \notin DOMAIN codes'
          /\ \A c \in DOMAIN codes' : c \in DOMAIN codes /\ codes'[c] = codes[c]
      ]_vars

\* C18 witness: past the hour the first room was swept, the code it held was
\* allocated to the third room, and a room updated within the hour is kept
C18_Witness ==
    /\ now = Hour + 1
    /\ 1 \notin DOMAIN rooms
    /\ 3 \in DOMAIN rooms /\ rooms[3].UpdatedAt = now
    /\ 2 \in DOMAIN rooms /\ rooms[2].UpdatedAt = now
    /\ rooms[2].Code # rooms[3].Code

\* C19 as stated: in every reachable state, under any interleaving of
\* concurrent register requests, no two users of the registry have the same
\* username.
C19_Original ==
    \A u, v \in DOMAIN users : u # v => users[u].Username # users[v].Username

\* two goroutines passed the username check with the same username: both will
\* insert it
C19_BothPassedCheck ==
    \E w1, w2 \in Workers :
        /\ w1 # w2
        /\ inflight[w1].pc = "insert"
        /\ inflight[w2].pc = "insert"
        /\ inflight[w1].Username = inflight[w2].Username

\* C20: a register request whose username equals, case-sensitively, the
\* username of a user of the registry is answered Conflict and ends at the
\* check: the goroutine goes on to no insert and no session, so no user and no
\* session is added.
C20_DuplicateConflict ==
    \A w \in Workers, username \in UsernameInputs :
        inflight[w].pc = "idle"
        /\ (\E u \in DOMAIN users : users[u].Username = username)
          => /\ registerStatus(username) = "Conflict"
             /\ registerChecked(w, username) = inflight

\* C20 witness: "al" and "AL" are both registered, each with a session, and a
\* further request for "al" finds the name taken
C20_Witness ==
    /\ \E u \in DOMAIN users : users[u].Username = "al"
    /\ \E u \in DOMAIN users : users[u].Username = "AL"
    /\ Cardinality(DOMAIN sessions) = 2
    /\ \A w \in Workers : inflight[w].pc = "idle"
    /\ registerStatus("al") = "Conflict"

\* every protected route answers Unauthorized to the token and leaves the
\* registries as they are
allUnauthorized(tok) ==
    /\ userStatus(tok) = "Unauthorized"
    /\ createStatus(tok) = "Unauthorized"
    /\ \A result \in ResultInputs :
          scoreStatus(tok, result) = "Unauthorized" /\ scoredUsers(tok, result) = users
    /\ \A codeIn \in CodeInputs :
          joinStatus(tok, codeIn) = "Unauthorized" /\ joinedRooms(tok, codeIn) = rooms
    /\ \A id \in AuthRoomIds :
          /\ \A index \in IndexInputs :
                /\ moveStatus(tok, id, index) = "Unauthorized"
                /\ movedRooms(tok, id, index) = rooms
                /\ movedUsers(tok, id, index) = users
          /\ leaveStatus(tok, id) = "Unauthorized"
          /\ leftRooms(tok, id) = rooms
          /\ leftCodes(tok, id) = codes
          /\ leftUsers(tok, id) = users
          /\ emoteStatus(tok, id) = "Unauthorized"

\* a token of the sessions resolves to its user; any other token (absent,
\* unknown or logged out) is Unauthorized on every protected route
sessionsResolve ==
    \A tok \in SessionTokens :
        IF tok \in DOMAIN sessions
        THEN /\ tok # NoToken
             /\ tok <= tokSeq
             /\ sessions[tok] \in DOMAIN users
             /\ getUserFromToken(tok) = sessions[tok]
             /\ userStatus(tok) = "OK"
        ELSE allUnauthorized(tok)

\* a token enters the sessions by a register or a login, as a token that was
\* never handed out before; it keeps its user; it leaves the sessions only by
\* a logout with this token, which leaves every other token in place
sessionsStep ==
    /\ tokSeq' >= tokSeq
    /\ \A tok \in DOMAIN sessions' \ DOMAIN sessions :
          /\ tok > tokSeq
          /\ (\E w \in Workers : RegisterSession(w))
                \/ (\E username \in UsernameInputs : Login(username))
    /\ \A tok \in DOMAIN sessions :
          IF tok \in DOMAIN sessions'
          THEN sessions'[tok] = sessions[tok]
          ELSE Logout(tok) /\ DOMAIN sessions' = DOMAIN sessions \ {tok}

\* C21: a session token resolves to its user from the register or login that
\* created it until a logout with that token; after that logout every protected
\* route answers Unauthorized to it for good (tokens are never handed out
\* twice), while every other live token of the same user stays valid; a request
\* with an absent or unknown token is Unauthorized on every protected route and
\* changes no state.
C21_SessionLifetime == []sessionsResolve /\ [][sessionsStep]_vars

\* C21 witness: a user created a room with a token and logged that token out;
\* another token of the same user is live
C21_Witness ==
    \E id \in DOMAIN rooms, gone \in 1..tokSeq, live \in DOMAIN sessions :
        /\ gone \notin DOMAIN sessions
        /\ sessions[live] = rooms[id].PlayerX
        /\ createStatus(gone) = "Unauthorized"
        /\ userStatus(live) = "OK"

\* the fields of a room an emote and a read of the state leave alone
sameGame(a, b) ==
    /\ a.Code = b.Code
    /\ a.BoardSize = b.BoardSize
    /\ a.Board = b.Board
    /\ a.PlayerX = b.PlayerX
    /\ a.PlayerO = b.PlayerO
    /\ a.CurrentTurn = b.CurrentTurn
    /\ a.Status = b.Status
    /\ a.Winner = b.Winner
    /\ a.WinningLine = b.WinningLine
    /\ a.LastMove = b.LastMove

\* the answer and the rooms an emote request has to leave
emoteContract(tok, id, emoteType) ==
    LET user == IF tok \in DOMAIN sessions THEN sessions[tok] ELSE Nil
        after == emotedRooms(tok, id, emoteType)
    IN  IF user = Nil THEN TRUE
        ELSE IF id \notin DOMAIN rooms
        THEN emoteStatus(tok, id) = "NotFound" /\ after = rooms
        ELSE IF user # rooms[id].PlayerX /\ user # rooms[id].PlayerO
        THEN emoteStatus(tok, id) = "Forbidden" /\ after = rooms
        ELSE /\ emoteStatus(tok, id) = "OK"
             /\ DOMAIN after = DOMAIN rooms
             /\ \A other \in DOMAIN rooms \ {id} : after[other] = rooms[other]
             /\ after[id].ShowEmote
             /\ after[id].EmoteType = emoteType
             /\ after[id].EmoteBy = users[user].Username
             /\ after[id].EmoteAt = now
             /\ after[id].UpdatedAt = now
             /\ sameGame(after[id], rooms[id])

\* C22: an emote request by a seated player sets the room's emote to active
\* with the given kind, the caller's username and the current time and
\* refreshes updated_at, without changing board, turn, status, winner or
\* scores; by a non-seated user it fails with Forbidden, on an unknown room with
\* NotFound, both leaving all rooms unchanged.
C22_EmoteContract ==
    /\ [](\A tok \in Tokens, id \in RoomIds \cup {Nil}, emoteType \in EmoteInputs :
            emoteContract(tok, id, emoteType))
    /\ [][\A id \in DOMAIN rooms \cap DOMAIN rooms' :
            rooms'[id].EmoteAt # rooms[id].EmoteAt
                => /\ users' = users
                   /\ codes' = codes
                   /\ sameGame(rooms'[id], rooms[id])
                   /\ \E tok \in Tokens :
                         rooms' = emotedRooms(tok, id, rooms'[id].EmoteType)]_vars

\* C22 witness: in a game with a mark on the board the O player's emote is
\* showing, set at the current time, and a user with a session has no seat
C22_Witness ==
    \E id \in DOMAIN rooms, tok \in DOMAIN sessions :
        /\ rooms[id].Status = "playing"
        /\ marked(rooms[id].Board) # {}
        /\ rooms[id].ShowEmote
        /\ rooms[id].PlayerO # Nil
        /\ rooms[id].EmoteBy = users[rooms[id].PlayerO].Username
        /\ rooms[id].EmoteAt = now
        /\ now > 0
        /\ emoteStatus(tok, id) = "Forbidden"

\* the rooms a read of the state has to leave
readContract(id) ==
    LET after == readRooms(id)
    IN  IF id \notin DOMAIN rooms THEN stateStatus(id) = "NotFound" /\ after = rooms
        ELSE /\ stateStatus(id) = "OK"
             /\ DOMAIN after = DOMAIN rooms
             /\ \A other \in DOMAIN rooms \ {id} : after[other] = rooms[other]
             /\ sameGame(after[id], rooms[id])
             /\ IF rooms[id].ShowEmote /\ now - rooms[id].EmoteAt > EmoteTTL
                THEN /\ ~after[id].ShowEmote
                     /\ after[id].EmoteType = ""
                     /\ after[id].EmoteBy = ""
                ELSE after[id] = rooms[id]

\* C23: read state clears the emote (active flag off, kind and triggering
\* username emptied) if and only if the emote is active and was triggered more
\* than 3 seconds before the read; a read within 3 seconds of the emote returns
\* it still active, and a read never changes board, turn, status, winner or
\* players. An active emote goes off only by such a read.
C23_ReadClearsOldEmote ==
    /\ [](\A id \in RoomIds \cup {Nil} : readContract(id))
    /\ [][\A id \in DOMAIN rooms \cap DOMAIN rooms' :
            rooms[id].ShowEmote /\ ~rooms'[id].ShowEmote
                => now - rooms[id].EmoteAt > EmoteTTL /\ rooms' = readRooms(id)]_vars

\* C23 witness: in a game with a mark on the board an emote that was set after
\* the start of the clock has been cleared by a read
C23_Witness ==
    \E id \in DOMAIN rooms :
        /\ rooms[id].Status = "playing"
        /\ marked(rooms[id].Board) # {}
        /\ ~rooms[id].ShowEmote
        /\ rooms[id].EmoteType = ""
        /\ rooms[id].EmoteBy = ""
        /\ rooms[id].EmoteAt > 0
        /\ now - rooms[id].EmoteAt > EmoteTTL

\* an emote that is exactly EmoteTTL old is showing and a read leaves it so
C23_StillActiveAtTTL ==
    \E id \in DOMAIN rooms :
        /\ rooms[id].ShowEmote
        /\ now - rooms[id].EmoteAt = EmoteTTL
        /\ readRooms(id) = rooms

\* a game move that ends the game and whose write fails leaves the rooms and
\* the users as the move with a successful write leaves them
moveKeptOnFailure ==
    \A tok \in Tokens, id \in RoomIds, index \in StoreIndexInputs :
        (/\ moveStatus(tok, id, index) = "OK"
         /\ movedRooms(tok, id, index)[id].Status = "finished"
         /\ GameMoveSave(tok, id, index, FALSE))
            => /\ rooms'[id].Status = "finished"
               /\ rooms'[id].Winner \in {"X", "O", "draw"}
               /\ rooms' = movedRooms(tok, id, index)
               /\ users' = movedUsers(tok, id, index)
               /\ users' # users
               /\ file' = file

\* the same for a forfeit
leaveKeptOnFailure ==
    \A tok \in Tokens, id \in RoomIds :
        (/\ leaveStatus(tok, id) = "OK"
         /\ id \in DOMAIN rooms
         /\ rooms[id].Status = "playing"
         /\ LeaveGameSave(tok, id, FALSE))
            => /\ rooms'[id].Status = "finished"
               /\ rooms' = leftRooms(tok, id)
               /\ users' = leftUsers(tok, id)
               /\ users' # users
               /\ file' = file

\* the same for an update score request
scoreKeptOnFailure ==
    \A tok \in CreatorTokens, result \in ResultInputs :
        (scoreStatus(tok, result) = "OK" /\ UpdateScoreSave(tok, result, FALSE))
            => /\ scoreTotal(sessions[tok])' = scoreTotal(sessions[tok]) + 1
               /\ users' = scoredUsers(tok, result)
               /\ file' = file

\* a register whose write fails keeps the new user and goes on to the session
registerKeptOnFailure ==
    \A w \in Workers :
        RegisterSave(w, FALSE)
            => /\ inflight[w].ID \in DOMAIN users'
               /\ users' = users
               /\ file' = file
               /\ inflight'[w].pc = "session"

\* C24: when the durable-store write fails during a score-changing operation
\* (game win, draw, forfeit, update score, register), the operation still
\* succeeds: the in-memory scores and room state keep the mutation, nothing is
\* rolled back, and the response reflects the mutated state.
C24_WriteFailureKeepsMemory ==
    [][/\ rooms' # rooms => moveKeptOnFailure /\ leaveKeptOnFailure
       /\ scoreKeptOnFailure
       /\ registerKeptOnFailure]_vars

\* C24 witness: X has won, the users hold the win and the loss, and the file
\* holds neither
C24_Witness ==
    \E id \in DOMAIN rooms :
        /\ rooms[id].Status = "finished"
        /\ rooms[id].Winner = "X"
        /\ users[rooms[id].PlayerX].Wins = 1
        /\ file[rooms[id].PlayerX].Wins = 0
        /\ users[rooms[id].PlayerO].Losses = 1
        /\ file[rooms[id].PlayerO].Losses = 0

\* a draw and a registered user that the file does not hold
C24_DrawAndRegisterUnsaved ==
    \E id \in DOMAIN rooms, u \in DOMAIN users, tok \in DOMAIN sessions :
        /\ rooms[id].Winner = "draw"
        /\ users[rooms[id].PlayerX].Draws = 1
        /\ file[rooms[id].PlayerX].Draws = 0
        /\ u \notin DOMAIN file
        /\ sessions[tok] = u

\* the smaller of two numbers
min(a, b) == IF a < b THEN a ELSE b

\* the users of a list
listed(list) == {list[i] : i \in 1..Len(list)}

\* C25: the leaderboard returns min(10, number of users) users, ordered by
\* wins in non-increasing order, and every user left out has no more wins than
\* any user returned.
C25_LeaderboardTopTen ==
    \A w \in Workers :
        inflight[w].pc = "ranked" =>
            LET out == inflight[w].ranked
            IN  /\ Len(out) = min(10, Cardinality(DOMAIN users))
                /\ listed(out) \subseteq DOMAIN users
                /\ Cardinality(listed(out)) = Len(out)
                /\ \A i, j \in 1..Len(out) :
                      i < j => users[out[i]].Wins >= users[out[j]].Wins
                /\ \A u \in DOMAIN users \ listed(out), v \in listed(out) :
                      users[u].Wins <= users[v].Wins

\* C25 witness: of eleven users the one the map visited last has the most
\* wins; it leads the ten users returned
C25_Witness ==
    \E w \in Workers :
        /\ inflight[w].pc = "ranked"
        /\ Cardinality(DOMAIN users) = 11
        /\ Len(inflight[w].ranked) = 10
        /\ inflight[w].ranked[1] = inflight[w].copied[11]
        /\ \A u \in DOMAIN users \ {inflight[w].ranked[1]} :
              users[u].Wins < users[inflight[w].ranked[1]].Wins

\* the place of a run in the order rows, columns, down-right diagonals,
\* down-left diagonals, read off the distance of its first two cells
runClass(size, line) ==
    LET step == line[2] - line[1]
    IN  IF step = 1 THEN 1
        ELSE IF step = size THEN 2
        ELSE IF step = size + 1 THEN 3
        ELSE 4

runRow(size, line) == line[1] \div size

runCol(size, line) == line[1] % size

\* run a is not enumerated after run b: rows by row, then start column;
\* columns by column, then start row; the runs of one diagonal direction in
\* any order
notAfter(size, a, b) ==
    \/ runClass(size, a) < runClass(size, b)
    \/ /\ runClass(size, a) = runClass(size, b)
       /\ \/ /\ runClass(size, a) = 1
             /\ \/ runRow(size, a) < runRow(size, b)
                \/ runRow(size, a) = runRow(size, b) /\ runCol(size, a) <= runCol(size, b)
          \/ /\ runClass(size, a) = 2
             /\ \/ runCol(size, a) < runCol(size, b)
                \/ runCol(size, a) = runCol(size, b) /\ runRow(size, a) <= runRow(size, b)
          \/ runClass(size, a) > 2

\* C26: when a board satisfies more than one winning combination at once,
\* checkWinner returns the one enumerated first in the fixed order: all row
\* runs (by row, then start column), then all column runs (by column, then
\* start row), then down-right diagonal runs, then down-left diagonal runs;
\* the mark is the mark of that run, and a finished room records this result.
C26_FirstCombination ==
    \A id \in DOMAIN rooms :
        LET board == rooms[id].Board
            size == rooms[id].BoardSize
            result == checkWinner(board, size)
        IN  /\ completeRuns(board, size) # {} =>
                 /\ result[2] \in completeRuns(board, size)
                 /\ result[1] = board[result[2][1]]
                 /\ \A other \in completeRuns(board, size) :
                       notAfter(size, result[2], other)
            /\ rooms[id].Status = "finished" =>
                 rooms[id].Winner = result[1] /\ rooms[id].WinningLine = result[2]

\* C26 witness: a finished room whose board holds a complete row and a
\* complete column of the other mark; the row is the winning line
C26_Witness ==
    \E id \in DOMAIN rooms :
        /\ rooms[id].Status = "finished"
        /\ \E a, b \in completeRuns(rooms[id].Board, rooms[id].BoardSize) :
              /\ runClass(rooms[id].BoardSize, a) = 1
              /\ runClass(rooms[id].BoardSize, b) = 2
              /\ rooms[id].Board[a[1]] # rooms[id].Board[b[1]]
              /\ rooms[id].WinningLine = a
              /\ rooms[id].Winner = rooms[id].Board[a[1]]

\* a finished room of size 5 with two complete rows and a complete diagonal
C26_ThreeRunsOnFive ==
    \E id \in DOMAIN rooms :
        /\ rooms[id].Status = "finished"
        /\ rooms[id].BoardSize = 5
        /\ Cardinality(completeRuns(rooms[id].Board, 5)) >= 2
        /\ \E a, b \in completeRuns(rooms[id].Board, 5) :
              a # b /\ runClass(5, a) = runClass(5, b) /\ rooms[id].WinningLine = a

\* the goroutine is between games.mu.Lock() and games.mu.Unlock(), by its
\* position in the code
inSection(g) ==
    \/ inflight[g].pc \in {"lookup", "mutate", "gamesUnlock", "sweep"}
    \/ /\ inflight[g].pc \in {"incLoad", "incStore", "saveRLock", "saveWrite"}
       /\ inflight[g].req.op # "score"

\* C27: the read-modify-write sections of create, join, move, leave, emote,
\* read state and the expiry sweep on the room registry are mutually
\* exclusive: at no time are two of them inside their section at once, so the
\* sweep never deletes a room between another handler's lookup of that room
\* and the end of that handler's mutation.
C27_SectionsExclusive ==
    /\ [](Cardinality({g \in Goroutines : inSection(g)}) <= 1)
    /\ [][(DOMAIN rooms' # DOMAIN rooms /\ inflight[Sweeper].pc = "sweep")
            => \A w \in Workers : ~inSection(w) /\ ~inSection(w)']_vars

\* C27 witness: a handler has looked up a room that is idle for more than an
\* hour and is about to write to it, while the sweep waits for games.mu
C27_Witness ==
    \E w \in Workers :
        /\ inflight[w].pc = "mutate"
        /\ inflight[w].req.op \in {"join", "move", "emote"}
        /\ 1 \in DOMAIN rooms
        /\ isExpired(rooms[1])
        /\ inflight[Sweeper].pc = "gamesLock"

\* the goroutine has answered a request of the handler op
served(g, op) == inflight[g].pc = "done" /\ inflight[g].req.op = op

\* C28: when several distinct users who are not seated join the same waiting
\* room concurrently, exactly one of them becomes player-O and every other one
\* receives Conflict; likewise when two move requests for the same turn of the
\* same room run concurrently, at most one is applied to the board.
C28_OneJoinOneMove ==
    \A a, b \in Workers :
        a # b =>
            /\ (/\ served(a, "join") /\ served(b, "join")
                /\ inflight[a].req.code = inflight[b].req.code
                /\ inflight[a].user # inflight[b].user
                /\ inflight[a].status # "NotFound" /\ inflight[b].status # "NotFound")
                 => \E winner \in {a, b} :
                        /\ inflight[winner].status = "OK"
                        /\ \A other \in {a, b} \ {winner} :
                              inflight[other].status = "Conflict"
                        /\ \A id \in DOMAIN rooms :
                              rooms[id].Code = inflight[a].req.code
                                  => rooms[id].PlayerO = inflight[winner].user
            /\ (/\ served(a, "move") /\ served(b, "move")
                /\ inflight[a].req.id = inflight[b].req.id
                /\ inflight[a].user = inflight[b].user
                /\ inflight[a].status = "OK")
                 => /\ inflight[b].status = "BadRequest"
                    /\ \A id \in DOMAIN rooms :
                          id = inflight[a].req.id
                              => Cardinality(marked(rooms[id].Board))
                                    = Cardinality(marked(NearWinBoard)) + 1

\* C28 witness: users 2 and 3 have asked for the seat of the waiting room;
\* user 3 is player-O, user 2 got Conflict
C28_Witness ==
    \E a, b \in Workers :
        /\ served(a, "join") /\ served(b, "join")
        /\ inflight[a].user = 3 /\ inflight[a].status = "OK"
        /\ inflight[b].user = 2 /\ inflight[b].status = "Conflict"
        /\ 1 \in DOMAIN rooms
        /\ rooms[1].PlayerO = 3
        /\ rooms[1].Status = "playing"

\* two moves of X for one turn, to different cells: one is on the board
C28_TwoMovesOneTurn ==
    \E a, b \in Workers :
        /\ served(a, "move") /\ served(b, "move")
        /\ inflight[a].user = inflight[b].user
        /\ inflight[a].req.index # inflight[b].req.index
        /\ inflight[a].status = "OK"
        /\ inflight[b].status = "BadRequest"
        /\ 1 \in DOMAIN rooms
        /\ rooms[1].Board[inflight[a].req.index] = "X"
        /\ rooms[1].Board[inflight[b].req.index] = ""

\* the locks a goroutine holds, for reading or for writing
heldBy(g) ==
    (IF locks.games = g THEN {"games"} ELSE {})
        \cup (IF locks.db = g \/ g \in locks.dbReaders THEN {"db"} ELSE {})
        \cup (IF locks.sessions = g \/ g \in locks.sessReaders THEN {"sessions"} ELSE {})

\* a goroutine that serves no request holds no lock and waits for none
allReleased ==
    \A g \in Goroutines :
        inflight[g].pc \in {"idle", "done"}
            => heldBy(g) = {} /\ g \notin locks.dbWaiting \cup locks.sessWaiting

\* games.mu and sessions.mu are taken by a goroutine that holds no lock, and
\* a goroutine that holds sessions.mu takes no lock
orderOfGamesAndSessions(g) ==
    /\ "games" \in heldBy(g)' \ heldBy(g) => heldBy(g) = {}
    /\ "sessions" \in heldBy(g)' \ heldBy(g) => heldBy(g) = {}
    /\ "sessions" \in heldBy(g) => heldBy(g)' \subseteq heldBy(g)

\* every request that has begun is answered, and every sweep ends
allAnswered ==
    /\ \A w \in Workers : inflight[w].pc # "idle" ~> inflight[w].pc = "done"
    /\ inflight[Sweeper].pc # "idle" ~> inflight[Sweeper].pc = "idle"

\* C29 as stated: no operation blocks indefinitely: under any interleaving of
\* request handlers and the expiry sweep the system never deadlocks, because
\* the user registry lock is only ever acquired while holding the room registry
\* lock and never the reverse, the session registry lock is never held while
\* acquiring another lock, and every acquired lock is released on every path.
C29_Original ==
    /\ []allReleased
    /\ [][\A g \in Goroutines :
            /\ orderOfGamesAndSessions(g)
            /\ "db" \in heldBy(g)' \ heldBy(g) => "games" \in heldBy(g)]_vars
    /\ allAnswered

\* C29: no operation blocks indefinitely: under any interleaving of request
\* handlers and the expiry sweep every request is answered and every sweep
\* ends, because a goroutine that takes the user registry lock holds no lock or
\* only the room registry lock, the room registry lock is never taken while
\* holding the user registry lock, the session registry lock is never held
\* while acquiring another lock, and every acquired lock is released on every
\* path including error returns.
C29_NoDeadlock ==
    /\ []allReleased
    /\ [][\A g \in Goroutines :
            /\ orderOfGamesAndSessions(g)
            /\ "db" \in heldBy(g)' \ heldBy(g) => heldBy(g) \subseteq {"games"}]_vars
    /\ allAnswered

\* C29 witness: a handler that holds games.mu waits in saveDatabase for db.mu,
\* which an update score request holds, while the sweep waits for games.mu
C29_Witness ==
    \E a, b \in Workers :
        /\ inflight[a].pc = "saveRLock"
        /\ locks.games = a
        /\ locks.db = b
        /\ inflight[Sweeper].pc = "gamesLock"

RECURSIVE countIn(_, _)
\* how often the entry occurs in the list
countIn(list, entry) ==
    IF list = << >> THEN 0
    ELSE (IF Head(list) = entry THEN 1 ELSE 0) + countIn(Tail(list), entry)

\* the increments the requests served so far have applied to a counter
incrementsApplied(user, field) ==
    countIn(inflight["w1"].applied, <<user, field>>)
        + countIn(inflight["w2"].applied, <<user, field>>)

\* no request is between the read and the write of a counter
noIncrementPending == \A w \in Workers : inflight[w].pc # "incStore"

\* C30: no score increment is lost under concurrency: after any interleaving
\* of game-terminating operations (winning or drawing move, forfeit) and
\* update-score requests that touch the same user, each of the user's wins,
\* losses and draws counters equals its initial value plus the number of
\* increments applied to it.
C30_Original ==
    noIncrementPending =>
        \A u \in DOMAIN users, field \in {"Wins", "Losses", "Draws"} :
            users[u][field] = 0 + incrementsApplied(u, field)

\* the winning move of user 1 and an update score request of user 1 are both
\* answered with OK, both have incremented the wins of user 1, and user 1 has
\* one win
C30_LostIncrement ==
    \E a, b \in Workers :
        /\ served(a, "move") /\ inflight[a].status = "OK"
        /\ served(b, "score") /\ inflight[b].status = "OK"
        /\ countIn(inflight[a].applied, <<1, "Wins">>) = 1
        /\ countIn(inflight[b].applied, <<1, "Wins">>) = 1
        /\ users[1].Wins = 1

\* games.mu is held by the goroutine that writes a counter of a game, db.mu
\* by the one that writes for an update score request, at the same time
C30_TwoWritersTwoLocks ==
    \E a, b \in Workers :
        /\ inflight[a].pc = "incStore" /\ inflight[a].req.op = "move"
        /\ inflight[b].pc = "incStore" /\ inflight[b].req.op = "score"
        /\ heldBy(a) = {"games"}
        /\ heldBy(b) = {"db"}
        /\ inflight[a].todo[1] = inflight[b].todo[1]

\* C31: the room returned in the response of a successful join, move or
\* emote is the room's state at the end of that handler's exclusive section:
\* no mutation by a concurrent request on the same room is visible in the
\* response.
C31_Original ==
    \A w \in Workers :
        (/\ inflight[w].pc = "done"
         /\ inflight[w].status = "OK"
         /\ inflight[w].req.op \in {"join", "move", "emote"}
         /\ inflight[w].room # Nil)
            => inflight[w].resp = inflight[w].sent

\* user 1 is answered an emote with a room that holds the move of user 1 that
\* another request made after the emote handler unlocked games.mu
C31_ForeignMoveInResponse ==
    \E a, b \in Workers :
        /\ served(a, "emote") /\ inflight[a].status = "OK"
        /\ served(b, "move") /\ inflight[b].status = "OK"
        /\ inflight[a].sent.Board[inflight[b].req.index] = ""
        /\ inflight[a].resp.Board[inflight[b].req.index] = "X"
        /\ inflight[a].sent.Status = "playing"
        /\ inflight[a].resp.Status = "finished"

\* the board has no empty cell
full(board) == marked(board) = DOMAIN board

\* C32: every game ends. A move is accepted only by a playing room and marks
\* exactly one empty cell, so a room accepts at most size*size moves; the move
\* that fills the board always leaves the room finished (win or draw), and no
\* playing room has a full board.
C32_EveryGameEnds ==
    /\ [](\A id \in DOMAIN rooms :
            /\ Cardinality(marked(rooms[id].Board))
                    <= rooms[id].BoardSize * rooms[id].BoardSize
            /\ rooms[id].Status = "playing" => ~full(rooms[id].Board))
    /\ [][\A id \in DOMAIN rooms \cap DOMAIN rooms' :
            LET old == rooms[id]
                new == rooms'[id]
            IN  new.Board # old.Board =>
                    /\ old.Status = "playing"
                    /\ Cardinality(changedCells(old.Board, new.Board)) = 1
                    /\ marked(new.Board) = marked(old.Board)
                            \cup changedCells(old.Board, new.Board)
                    /\ Cardinality(marked(new.Board))
                            = Cardinality(marked(old.Board)) + 1
                    /\ full(new.Board) =>
                            /\ new.Status = "finished"
                            /\ new.Winner \in {"X", "O", "draw"}
       ]_vars

\* C32 witness: nine moves were accepted on a board of nine cells and the
\* ninth, by X, ended the game
C32_Witness ==
    \E id \in DOMAIN rooms :
        /\ rooms[id].BoardSize = 3
        /\ Cardinality(marked(rooms[id].Board)) = 9
        /\ rooms[id].Status = "finished"
        /\ rooms[id].CurrentTurn = "X"
        /\ rooms[id].Winner \in {"X", "draw"}

\* the cells a winning line indexes
lineCells(line) == {line[i] : i \in 1..Len(line)}

\* C33: the winner recorded by a move is the mark of the player who made it.
\* For every reachable room and every move it accepts, a winner that
\* checkWinner reports on the board after the move is the mover's mark and the
\* reported line contains the cell just played; the room records that winner
\* and that line.
C33_WinnerIsMover ==
    /\ [](\A tok \in Tokens, id \in DOMAIN rooms, index \in AllIndexInputs :
            moveStatus(tok, id, index) = "OK" =>
                LET room == rooms[id]
                    playerSymbol == playerSymbolOf(room, getUserFromToken(tok))
                    result == checkWinner([room.Board EXCEPT ![index] = playerSymbol],
                                          room.BoardSize)
                IN  result[1] # "" =>
                        /\ result[1] = playerSymbol
                        /\ index \in lineCells(result[2]))
    /\ [][\A id \in DOMAIN rooms \cap DOMAIN rooms' :
            LET old == rooms[id]
                new == rooms'[id]
            IN  new.Board # old.Board /\ new.Winner \in {"X", "O"} =>
                    /\ changedCells(old.Board, new.Board) = {new.LastMove}
                    /\ new.Winner = new.Board[new.LastMove]
                    /\ new.Winner = old.CurrentTurn
                    /\ new.LastMove \in lineCells(new.WinningLine)
                    /\ <<new.Winner, new.WinningLine>>
                            = checkWinner(new.Board, new.BoardSize)
       ]_vars

\* C33 witness: O made the last move of a game and is its recorded winner,
\* while X holds more cells than O's line has
C33_Witness ==
    \E id \in DOMAIN rooms :
        /\ rooms[id].Status = "finished"
        /\ rooms[id].Winner = "O"
        /\ rooms[id].LastMove \in lineCells(rooms[id].WinningLine)
        /\ rooms[id].Board[rooms[id].LastMove] = "O"
        /\ Cardinality({i \in DOMAIN rooms[id].Board : rooms[id].Board[i] = "X"}) = 4

\* the number of cells of the board that hold the mark
marks(board, mark) == Cardinality({i \in DOMAIN board : board[i] = mark})

\* C34: in every reachable state of every room the number of X marks minus
\* the number of O marks is 0 or 1; while the room is playing the turn marker
\* is "X" exactly when the two counts are equal; LastMove is -1 exactly when
\* the board is empty and otherwise indexes a non-empty cell.
C34_MarksTurnLastMove ==
    \A id \in DOMAIN rooms :
        LET room == rooms[id]
            diff == marks(room.Board, "X") - marks(room.Board, "O")
        IN  /\ diff \in {0, 1}
            /\ marks(room.Board, "X") + marks(room.Board, "O")
                    = Cardinality(marked(room.Board))
            /\ room.CurrentTurn \in {"X", "O"}
            /\ room.Status = "playing" => (room.CurrentTurn = "X" <=> diff = 0)
            /\ room.LastMove = -1 <=> marked(room.Board) = {}
            /\ room.LastMove # -1 => room.LastMove \in marked(room.Board)

\* C34 witness: a playing room after three moves, O to move, the last mark an X
C34_Witness ==
    \E id \in DOMAIN rooms :
        /\ rooms[id].Status = "playing"
        /\ marks(rooms[id].Board, "X") = 2
        /\ marks(rooms[id].Board, "O") = 1
        /\ rooms[id].CurrentTurn = "O"
        /\ rooms[id].Board[rooms[id].LastMove] = "X"

\* a room finished by a forfeit of O right after O's move: the counts are equal
\* and the turn marker is "X"
C34_ForfeitAfterMove ==
    \E id \in DOMAIN rooms :
        /\ rooms[id].Status = "finished"
        /\ rooms[id].WinningLine = <<>>
        /\ rooms[id].Winner = "X"
        /\ marks(rooms[id].Board, "X") = marks(rooms[id].Board, "O")
        /\ marks(rooms[id].Board, "X") = 1

\* C35: a room's WinningLine is non-empty only if the room is finished with
\* winner "X" or "O" by a board win, and then every cell the line indexes holds
\* the winner's mark; a room finished by draw or by forfeit has an empty
\* WinningLine.
C35_WinningLine ==
    /\ [](\A id \in DOMAIN rooms :
            LET room == rooms[id]
            IN  /\ room.WinningLine # <<>> =>
                    /\ room.Status = "finished"
                    /\ room.Winner \in {"X", "O"}
                    /\ conditionWon(room.Board, room.WinningLine)
                    /\ \A c \in lineCells(room.WinningLine) :
                            room.Board[c] = room.Winner
                /\ room.Winner = "draw" => room.WinningLine = <<>>
                /\ room.Status = "finished"
                        /\ checkWinner(room.Board, room.BoardSize)[1] = "" =>
                            room.WinningLine = <<>>)
    /\ [][\A id \in DOMAIN rooms \cap DOMAIN rooms' :
            LET old == rooms[id]
                new == rooms'[id]
            IN  /\ old.Status = "playing" /\ new.Status = "finished"
                        /\ new.Board = old.Board => new.WinningLine = <<>>
                /\ new.WinningLine # old.WinningLine =>
                        /\ new.Board # old.Board
                        /\ old.WinningLine = <<>>
       ]_vars

\* C35 witness: a board win of X on the anti-diagonal, recorded as the winning
\* line
C35_Witness ==
    \E id \in DOMAIN rooms :
        /\ rooms[id].Status = "finished"
        /\ rooms[id].Winner = "X"
        /\ rooms[id].BoardSize = 3
        /\ rooms[id].WinningLine = <<2, 4, 6>>
        /\ \A c \in {2, 4, 6} : rooms[id].Board[c] = "X"

\* a draw on a full board, no winning line
C35_DrawNoLine ==
    \E id \in DOMAIN rooms :
        /\ rooms[id].Winner = "draw"
        /\ full(rooms[id].Board)
        /\ rooms[id].WinningLine = <<>>

\* a forfeit by X after four moves, no winning line
C35_ForfeitNoLine ==
    \E id \in DOMAIN rooms :
        /\ rooms[id].Status = "finished"
        /\ rooms[id].Winner = "O"
        /\ Cardinality(marked(rooms[id].Board)) = 4
        /\ rooms[id].CurrentTurn = "X"
        /\ rooms[id].WinningLine = <<>>

\* the caller is authenticated and holds no seat of the room
outsider(tok, id) ==
    /\ getUserFromToken(tok) # Nil
    /\ ~seated(rooms[id], getUserFromToken(tok))

C36_PlayingRoomUnchanged ==
    \A tok \in Tokens, id \in DOMAIN rooms :
        outsider(tok, id) /\ rooms[id].Status = "playing" =>
            /\ leftRooms(tok, id) = rooms
            /\ leftCodes(tok, id) = codes
            /\ leftUsers(tok, id) = users

\* a waiting or finished room and an authenticated user who holds no seat of
\* it: the leave of that user removes the room and its code
C36_OutsiderDeletes ==
    \E tok \in Tokens, id \in DOMAIN rooms :
        /\ outsider(tok, id)
        /\ rooms[id].Status = "finished"
        /\ id \notin DOMAIN leftRooms(tok, id)
        /\ rooms[id].Code \notin DOMAIN leftCodes(tok, id)

====
